---- MODULE Spec2Model ----
(***************************************************************************)
(* Verification model of the Mangwale voice stack (skyagarwal/mercury).    *)
(*                                                                         *)
(* Services modelled (each is its own OS process, sharing no memory with   *)
(* the others; the variable `service` records which one a behaviour        *)
(* follows):                                                               *)
(*   "nerve"  - escotel-stack/exotel-service/nerve_system.py: the IVR      *)
(*              webhook handlers (gather, passthru, outcome, status), the  *)
(*              call registry active_calls and the Jupiter reporter.       *)
(*   "stream" - escotel-stack/exotel-service/voice_streaming_service.py:   *)
(*              one websocket connection with its message loop, the        *)
(*              background greeting task and the audio sender task.        *)
(* The TTS cache of nerve_system.py (SpecTTS), the two turn detectors     *)
(* (SpecTurn), the voice gateway's session table (SpecSessions), the       *)
(* audio pre-generation of initiate_vendor_call (SpecVendor) and the       *)
(* provider fallback chains of the enhanced ASR, TTS and orchestrator      *)
(* services (SpecChain), the three DTMF scripts fed the same keys          *)
(* (SpecScript), the voice gateway's websocket handler (SpecWs) and the    *)
(* sessions map of src/voice-gateway/gateway.py (SpecLegacy) have          *)
(* specifications of their own further down.                               *)
(*                                                                         *)
(* CallState fields that no handler ever branches on (vendor_name,         *)
(* order_items, order_amount, language, call_type, timestamps) are left    *)
(* out of the session record; handlers only copy them into prompts and     *)
(* reports.                                                                *)
(***************************************************************************)
EXTENDS Integers, Sequences, FiniteSets, TLC

VARIABLES
    service,        \* "nerve" | "stream": the process this behaviour follows
    \* ---- nerve_system.py ----
    active_calls,   \* active_calls: Dict[str, CallState]
    reports,        \* number of JupiterReporter.report_result calls per call id
    statusPending,  \* status callbacks suspended in report_result, before cleanup
    initiation,     \* per call id: progress of initiate_vendor_call's Exotel request
    nextObj,        \* identity of the next CallState / StreamState object
    nEvents,        \* number of inbound events handled so far
    last,           \* the last handled event and the response it produced
    \* ---- voice_streaming_service.py: one websocket connection ----
    stream,         \* the StreamState of the connection, None before "start"
    output_queue,   \* StreamState.output_queue
    loop,           \* the message loop of handle_connection: position and text
    greeting,       \* the background _send_greeting task: position
    sender,         \* the _audio_sender task: position and the item it holds
    wire,           \* frames put on the websocket by the sender, in order
    flushes,        \* wire positions at which a speak flushed the queue
    enq,            \* every item put on output_queue so far, in order
    \* ---- nerve_system.py: TTSCache ----
    cache,          \* TTSCache.cache: Dict[str, bytes]
    synth,          \* per caller: its TTSCache.synthesize call
    upstream,       \* per key: number of POSTs made to the TTS service
    stores,         \* per key: the bytes stored under it, in order
    \* ---- turn detectors ----
    frames,         \* VAD probabilities (in tenths) of the frames fed so far
    asr,            \* streaming-asr websocket_stream: its locals and messages
    engine,         \* voice-gateway TurnTakingEngine: its dicts for one session
    now,            \* voice-gateway wall clock time.time(), in ms
    engineB,        \* a second run of the TurnTakingEngine on the same frames
    nowB,           \* the wall clock of the second run
    \* ---- voice-gateway: SessionManager and its callers ----
    sessions,       \* SessionManager.sessions: Dict[str, VoiceSession]
    gwTasks,        \* per session id: the handlers suspended on its behalf
    cleanupTasks,   \* per session id: _delayed_cleanup tasks still asleep
    gwReports,      \* per session id: number of report_to_jupiter calls
    nextSid,        \* the next session id (uuid4 never repeats)
    gwLast,         \* the last operation on the gateway and its outcome
    \* ---- nerve_system.py: one initiate_vendor_call request ----
    vendor,         \* its position, what pre-generation gave, what was sent
    \* ---- asr-enhanced, tts-enhanced, orchestrator-enhanced ----
    chain,          \* one call of a fallback chain: inputs, providers called, result
    \* ---- the order-confirmation script, three implementations ----
    script,         \* the three DTMF scripts run side by side on the same keys
    \* ---- voice-gateway/main.py: one /ws/voice connection ----
    ws,             \* its position, the chunks not yet read, the bytes buffered
    \* ---- src/voice-gateway/gateway.py ----
    legacy          \* the sessions map, the VoiceSession objects, the connections

nerveVars == <<active_calls, reports, statusPending, initiation, nextObj>>

streamVars ==
    <<stream, output_queue, loop, greeting, sender, wire, flushes, enq>>

ttsVars == <<cache, synth, upstream, stores>>

turnVars == <<frames, asr, engine, now, engineB, nowB>>

gwVars == <<sessions, gwTasks, cleanupTasks, gwReports, nextSid, gwLast>>

vcVars == <<vendor>>

----------------------------------------------------------------------------
(* Bounds of the model *)

\* Length of the event sequences explored.
MaxEvents == 5

\* Handlers read and write only the registry entry of their own call id, so
\* calls do not interact; the events of one call id are explored in depth.
CallIds == {"c1"}

----------------------------------------------------------------------------
(* Optional values: Python's None is the empty sequence. *)

None == <<>>
Some(x) == <<x>>

----------------------------------------------------------------------------
(* Strings of the digits parameter, as sequences of characters. *)

QUOTE == "\""

RawDigitInputs ==
    { <<>>,
      <<"1">>, <<"0">>, <<"2">>, <<"3">>, <<"4">>,
      <<QUOTE, "1", QUOTE>>,
      <<"4", "5", "#">>,
      <<"*">> }

\* str.replace(ch, '')
RECURSIVE Remove(_, _)
Remove(s, ch) ==
    IF s = <<>> THEN <<>>
    ELSE IF Head(s) = ch THEN Remove(Tail(s), ch)
         ELSE <<Head(s)>> \o Remove(Tail(s), ch)

RECURSIVE LStrip(_)
LStrip(s) == IF s /= <<>> /\ Head(s) = " " THEN LStrip(Tail(s)) ELSE s

RECURSIVE RStrip(_)
RStrip(s) ==
    IF s /= <<>> /\ s[Len(s)] = " " THEN RStrip(SubSeq(s, 1, Len(s) - 1)) ELSE s

\* str.strip()
Strip(s) == RStrip(LStrip(s))

\* dtmf.replace('"', '').strip()
CleanDigits(raw) == Strip(Remove(raw, QUOTE))

DigitValue(ch) ==
    CASE ch = "0" -> 0 [] ch = "1" -> 1 [] ch = "2" -> 2 [] ch = "3" -> 3
      [] ch = "4" -> 4 [] ch = "5" -> 5 [] ch = "6" -> 6 [] ch = "7" -> 7
      [] ch = "8" -> 8 [] ch = "9" -> 9

IsDigitChar(ch) == ch \in {"0", "1", "2", "3", "4", "5", "6", "7", "8", "9"}

\* int(s) succeeds on a non-empty string of decimal digits.
IntParses(s) == s /= <<>> /\ \A i \in 1..Len(s) : IsDigitChar(s[i])

RECURSIVE IntOf(_)
IntOf(s) ==
    IF s = <<>> THEN 0
    ELSE 10 * IntOf(SubSeq(s, 1, Len(s) - 1)) + DigitValue(s[Len(s)])

Max(a, b) == IF a >= b THEN a ELSE b
Min(a, b) == IF a <= b THEN a ELSE b

----------------------------------------------------------------------------
(* nerve_system.py: CallState and the responses of the webhook handlers *)

NerveTerminalStates == {"completed", "goodbye"}

\* CallState(...) as the callback handlers create it (status ANSWERED).
NewCallState(obj, status) ==
    [ obj               |-> obj,
      current_state     |-> "greeting",
      status            |-> status,
      prep_time_minutes |-> None,
      rejection_reason  |-> None ]

\* What a handler returns: the session after it, the prompt, whether the
\* response asks for more digits, and the number of result reports it made.
Result(cs, prompt, gather, nrep) ==
    [ cs |-> cs, prompt |-> prompt, gather |-> gather, nrep |-> nrep ]

NoEvent ==
    [ op |-> "init", call |-> "None", dtmf |-> <<>>, from |-> "None",
      prompt |-> "None", gather |-> FALSE, nrep |-> 0 ]

Event(op, c, dtmf, from, r) ==
    [ op |-> op, call |-> c, dtmf |-> dtmf, from |-> from,
      prompt |-> r.prompt, gather |-> r.gather, nrep |-> r.nrep ]

----------------------------------------------------------------------------
(* programmable_gather_handler: /api/nerve/gather *)

\* "No DTMF - return initial greeting": the greeting with a one-digit gather.
GatherGreeting(cs) == Result(cs, "greeting", TRUE, 0)

\* dtmf = digits.replace('"', '').strip() if digits else None
GatherDtmf(raw) == IF raw /= <<>> THEN CleanDigits(raw) ELSE <<>>

GatherPrepTime(dtmf) ==
    CASE dtmf = <<"1">> -> 15
      [] dtmf = <<"2">> -> 30
      [] dtmf = <<"3">> -> 45
      [] OTHER -> 30

GatherTransition(cs, raw) ==
    LET dtmf == GatherDtmf(raw) IN
    IF dtmf /= <<>> /\ cs.current_state = "greeting" /\ dtmf = <<"1">>
    THEN Result([cs EXCEPT !.status = "ACCEPTED", !.current_state = "prep_time"],
                "prep_time_menu", TRUE, 0)
    ELSE IF dtmf /= <<>> /\ cs.current_state = "greeting" /\ dtmf = <<"0">>
    THEN Result([cs EXCEPT !.status = "REJECTED", !.current_state = "completed"],
                "rejection_goodbye", FALSE, 1)
    ELSE IF dtmf /= <<>> /\ cs.current_state = "prep_time"
    THEN Result([cs EXCEPT !.prep_time_minutes = Some(GatherPrepTime(dtmf)),
                           !.status = "PREP_TIME_SET",
                           !.current_state = "completed"],
                "prep_time_goodbye", FALSE, 1)
    ELSE GatherGreeting(cs)

----------------------------------------------------------------------------
(* exotel_passthru_callback: /api/nerve/callback *)

\* Mutant of ReplayGreeting: the replay also puts the session back to greeting.
ReplayGreetingResetsState(cs) ==
    Result([cs EXCEPT !.current_state = "greeting"], "greeting", TRUE, 0)

\* "No DTMF and existing call - replay greeting"
ReplayGreeting(cs) == Result(cs, "greeting", TRUE, 0)

PassthruPrepTime(clean) ==
    CASE clean = <<"1">> -> 15
      [] clean = <<"2">> -> 30
      [] clean = <<"3">> -> 45
      [] OTHER ->
           LET s == Remove(clean, "#") IN
           IF IntParses(s) THEN Max(5, Min(90, IntOf(s))) ELSE 30

RejectionReasonOf(clean) ==
    CASE clean = <<"1">> -> "ITEM_UNAVAILABLE"
      [] clean = <<"2">> -> "TOO_BUSY"
      [] clean = <<"3">> -> "SHOP_CLOSED"
      [] clean = <<"4">> -> "OTHER"
      [] OTHER -> "OTHER"

PassthruIvrMenu(cs, clean) ==
    IF clean = <<"1">>
    THEN Result([cs EXCEPT !.current_state = "greeting", !.status = "ANSWERED"],
                "greeting", TRUE, 0)
    ELSE Result([cs EXCEPT !.current_state = "greeting"], "greeting", TRUE, 0)

\* Mutant of PassthruGreeting: the accept branch also reports a result.
PassthruGreetingReportsAccept(cs, clean) ==
    IF clean = <<"1">>
    THEN Result([cs EXCEPT !.status = "ACCEPTED", !.current_state = "prep_time"],
                "prep_time_menu", TRUE, 1)
    ELSE IF clean = <<"0">>
    THEN Result([cs EXCEPT !.status = "REJECTED", !.current_state = "completed"],
                "rejection_goodbye", FALSE, 1)
    ELSE Result(cs, "greeting", TRUE, 0)

PassthruGreeting(cs, clean) ==
    IF clean = <<"1">>
    THEN Result([cs EXCEPT !.status = "ACCEPTED", !.current_state = "prep_time"],
                "prep_time_menu", TRUE, 0)
    ELSE IF clean = <<"0">>
    THEN Result([cs EXCEPT !.status = "REJECTED", !.current_state = "completed"],
                "rejection_goodbye", FALSE, 1)
    ELSE ReplayGreeting(cs)

PassthruPrep(cs, clean) ==
    Result([cs EXCEPT !.prep_time_minutes = Some(PassthruPrepTime(clean)),
                      !.status = "PREP_TIME_SET",
                      !.current_state = "goodbye"],
           "prep_time_goodbye", FALSE, 1)

PassthruRejectionReason(cs, clean) ==
    Result([cs EXCEPT !.rejection_reason = Some(RejectionReasonOf(clean)),
                      !.current_state = "goodbye"],
           "rejection_goodbye", FALSE, 1)

\* The handler's body for a call found in active_calls; raw is digits or Digits.
PassthruTransition(cs, raw) ==
    LET clean == CleanDigits(raw) IN
    IF raw = <<>> THEN ReplayGreeting(cs)
    ELSE CASE cs.current_state = "ivr_menu"         -> PassthruIvrMenu(cs, clean)
           [] cs.current_state = "greeting"         -> PassthruGreeting(cs, clean)
           [] cs.current_state = "prep_time"        -> PassthruPrep(cs, clean)
           [] cs.current_state = "rejection_reason" -> PassthruRejectionReason(cs, clean)
           [] OTHER                                 -> ReplayGreeting(cs)

----------------------------------------------------------------------------
(* ivr_outcome_callback: /api/nerve/outcome *)

\* action values, split at the first "_" the way action.split("_")[1] reads them
OutcomeActions ==
    { <<"confirmed", <<"1", "5">>>>, <<"confirmed", <<"x">>>>,
      <<"check_app", <<>>>>, <<"cancelled", <<>>>>, <<"accepted", <<>>>>,
      <<"rejected", <<>>>>, <<"no_input", <<>>>>, <<"unknown", <<>>>> }

OutcomeTransition(cs, action) ==
    LET kind == action[1]
        arg  == action[2]
    IN CASE kind = "confirmed" ->
              [cs EXCEPT !.status = "ACCEPTED",
                         !.prep_time_minutes =
                             Some(IF IntParses(arg) THEN IntOf(arg) ELSE 30)]
         [] kind = "check_app" -> [cs EXCEPT !.status = "RETRY_REQUESTED"]
         [] kind = "cancelled" ->
              [cs EXCEPT !.status = "REJECTED",
                         !.rejection_reason = Some("vendor_cancelled")]
         [] kind = "accepted"  -> [cs EXCEPT !.status = "ACCEPTED"]
         [] kind = "rejected"  ->
              [cs EXCEPT !.status = "REJECTED",
                         !.rejection_reason = Some("driver_rejected")]
         [] kind = "no_input"  -> [cs EXCEPT !.status = "NO_RESPONSE"]
         [] OTHER              -> [cs EXCEPT !.status = "COMPLETED"]

----------------------------------------------------------------------------
(* The registry and the reporting sink *)

\* active_calls[CallSid] = call_state
StoreCall(calls, c, cs) ==
    [k \in DOMAIN calls \cup {c} |-> IF k = c THEN cs ELSE calls[k]]

\* del active_calls[call_sid]
DeleteCall(calls, c) == [k \in DOMAIN calls \ {c} |-> calls[k]]

\* JupiterReporter.report_result, called n times for call id c
ReportResult(c, n) == reports' = [reports EXCEPT ![c] = @ + n]

----------------------------------------------------------------------------
(* Actions of the nerve service *)

NerveStep ==
    /\ service = "nerve"
    /\ nEvents < MaxEvents
    /\ nEvents' = nEvents + 1
    /\ UNCHANGED <<service, streamVars, ttsVars, turnVars,
                   gwVars,
                   vcVars, chain, script, ws, legacy>>

\* GET /api/nerve/gather?CallSid=c&digits=raw
ProgrammableGather(c, raw) ==
    /\ NerveStep
    /\ LET known == c \in DOMAIN active_calls
           cs    == IF known THEN active_calls[c]
                    ELSE NewCallState(nextObj, "ANSWERED")
           r     == GatherTransition(cs, raw)
       IN /\ active_calls' = StoreCall(active_calls, c, r.cs)
          /\ nextObj' = IF known THEN nextObj ELSE nextObj + 1
          /\ ReportResult(c, r.nrep)
          /\ last' = Event("gather", c, GatherDtmf(raw),
                           IF known THEN cs.current_state ELSE "None", r)
    /\ UNCHANGED <<statusPending, initiation>>

\* GET /api/nerve/callback without a usable CallSid
PassthruInvalidCallSid ==
    /\ NerveStep
    /\ last' = Event("passthru", "None", <<>>, "None",
                     Result(None, "invalid_call_id", FALSE, 0))
    /\ UNCHANGED nerveVars

\* GET /api/nerve/callback?CallSid=c for a call id not in active_calls:
\* the session is created from CustomField and the greeting is played,
\* whatever digits the request carries.
PassthruNewCall(c, raw) ==
    /\ NerveStep
    /\ c \notin DOMAIN active_calls
    /\ active_calls' = StoreCall(active_calls, c, NewCallState(nextObj, "ANSWERED"))
    /\ nextObj' = nextObj + 1
    /\ last' = Event("passthru", c, IF raw = <<>> THEN <<>> ELSE CleanDigits(raw),
                     "None", Result(None, "greeting", TRUE, 0))
    /\ UNCHANGED <<reports, statusPending, initiation>>

\* GET /api/nerve/callback?CallSid=c&digits=raw for a call in active_calls
PassthruExistingCall(c, raw) ==
    /\ NerveStep
    /\ c \in DOMAIN active_calls
    /\ LET cs == active_calls[c]
           r  == PassthruTransition(cs, raw)
       IN /\ active_calls' = StoreCall(active_calls, c, r.cs)
          /\ ReportResult(c, r.nrep)
          /\ last' = Event("passthru", c,
                           IF raw = <<>> THEN <<>> ELSE CleanDigits(raw),
                           cs.current_state, r)
    /\ UNCHANGED <<statusPending, initiation, nextObj>>

\* /api/nerve/outcome?action=a&CallSid=c. A call id that is not registered
\* gets a temporary CallState that is reported but never stored.
IvrOutcome(c, action) ==
    /\ NerveStep
    /\ LET known == c \in DOMAIN active_calls
           cs    == IF known THEN active_calls[c]
                    ELSE NewCallState(nextObj, "INITIATED")
           cs2   == OutcomeTransition(cs, action)
       IN /\ active_calls' = IF known THEN StoreCall(active_calls, c, cs2)
                             ELSE active_calls
          /\ ReportResult(c, 1)
          /\ last' = Event("outcome", c, <<action[1]>>,
                           IF known THEN cs.current_state ELSE "None",
                           Result(cs2, "None", FALSE, 1))
    /\ UNCHANGED <<statusPending, initiation, nextObj>>

\* POST /api/nerve/status, up to the await of report_result
StatusCallback(c) ==
    /\ NerveStep
    /\ ReportResult(c, 1)
    /\ statusPending' = [statusPending EXCEPT ![c] = @ + 1]
    /\ last' = Event("status", c, <<>>,
                     IF c \in DOMAIN active_calls
                     THEN active_calls[c].current_state ELSE "None",
                     Result(None, "None", FALSE, 1))
    /\ UNCHANGED <<active_calls, initiation, nextObj>>

\* POST /api/nerve/status after report_result returned: the cleanup
StatusCleanup(c) ==
    /\ service = "nerve"
    /\ statusPending[c] > 0
    /\ statusPending' = [statusPending EXCEPT ![c] = @ - 1]
    /\ active_calls' = DeleteCall(active_calls, c)
    /\ last' = Event("status_cleanup", c, <<>>,
                     IF c \in DOMAIN active_calls
                     THEN active_calls[c].current_state ELSE "None",
                     Result(None, "None", FALSE, 0))
    /\ UNCHANGED <<service, reports, initiation, nextObj, nEvents, streamVars,
                   ttsVars, turnVars,
                   gwVars,
                   vcVars, chain, script, ws, legacy>>

\* initiate_vendor_call, up to the await of the Exotel connect request:
\* Exotel accepts the request and gives the call the Sid c.
InitiateRequest(c) ==
    /\ NerveStep
    /\ initiation[c] = "none"
    \* Exotel hands out a fresh Sid: nothing has been heard of c before
    /\ c \notin DOMAIN active_calls /\ nextObj = 1 /\ reports[c] = 0
    /\ initiation' = [initiation EXCEPT ![c] = "connecting"]
    /\ last' = Event("initiate", c, <<>>, "None", Result(None, "None", FALSE, 0))
    /\ UNCHANGED <<active_calls, reports, statusPending, nextObj>>

\* ExotelClient.initiate_call stores the CallState once the response is back,
\* and initiate_vendor_call stores a fresh one over it without suspending.
InitiateStore(c) ==
    /\ service = "nerve"
    /\ initiation[c] = "connecting"
    /\ initiation' = [initiation EXCEPT ![c] = "initiated"]
    /\ active_calls' = StoreCall(active_calls, c, NewCallState(nextObj, "INITIATED"))
    /\ nextObj' = nextObj + 1
    /\ last' = Event("initiate_store", c, <<>>,
                     IF c \in DOMAIN active_calls
                     THEN active_calls[c].current_state ELSE "None",
                     Result(None, "None", FALSE, 0))
    /\ UNCHANGED <<service, reports, statusPending, nEvents, streamVars,
                   ttsVars, turnVars,
                   gwVars,
                   vcVars, chain, script, ws, legacy>>

NerveInit ==
    /\ active_calls = <<>>
    /\ reports = [c \in CallIds |-> 0]
    /\ statusPending = [c \in CallIds |-> 0]
    /\ initiation = [c \in CallIds |-> "none"]
    /\ nextObj = 1
    /\ nEvents = 0
    /\ last = NoEvent

NerveNext ==
    \/ \E c \in CallIds, raw \in RawDigitInputs : ProgrammableGather(c, raw)
    \/ PassthruInvalidCallSid
    \/ \E c \in CallIds, raw \in RawDigitInputs : PassthruNewCall(c, raw)
    \/ \E c \in CallIds, raw \in RawDigitInputs : PassthruExistingCall(c, raw)
    \/ \E c \in CallIds, a \in OutcomeActions : IvrOutcome(c, a)
    \/ \E c \in CallIds : StatusCallback(c)
    \/ \E c \in CallIds : StatusCleanup(c)
    \/ \E c \in CallIds : InitiateRequest(c)
    \/ \E c \in CallIds : InitiateStore(c)

----------------------------------------------------------------------------
(* voice_streaming_service.py: ConversationManager.handle_dtmf *)

\* StreamState(...) as the "start" event creates it
NewStreamState ==
    [ conversation_state |-> "greeting",
      call_status        |-> "connected",
      prep_time_minutes  |-> None,
      last_response      |-> "None",
      last_mark          |-> "None",
      sequence_number    |-> 0 ]

StreamPrepTime(digit) ==
    CASE digit = "1" -> 15
      [] digit = "2" -> 30
      [] digit = "3" -> 45
      [] OTHER -> 30

\* handle_dtmf: the state after it and the text it returns ("None": nothing)
HandleDtmf(st, digit) ==
    IF st.conversation_state = "greeting" /\ digit = "1"
    THEN [ st   |-> [st EXCEPT !.conversation_state = "prep_time",
                               !.call_status = "accepted"],
           text |-> "prep_time_menu" ]
    ELSE IF st.conversation_state = "greeting" /\ digit = "0"
    THEN [ st   |-> [st EXCEPT !.conversation_state = "completed",
                               !.call_status = "rejected"],
           text |-> "rejection_goodbye" ]
    ELSE IF st.conversation_state = "prep_time"
    THEN [ st   |-> [st EXCEPT !.prep_time_minutes = Some(StreamPrepTime(digit)),
                               !.conversation_state = "completed",
                               !.call_status = "completed"],
           text |-> "prep_time_goodbye" ]
    ELSE [ st |-> st, text |-> "None" ]

----------------------------------------------------------------------------
(* voice_streaming_service.py: VoicebotHandler *)

\* One websocket connection carries the stream of one call.
StreamCall == "c1"

StreamDigits == {"0", "1", "2", "9"}

SAMPLE_RATE == 8000

\* Exotel's frame unit: 20 ms of 8 kHz 16-bit mono
CHUNK_SIZE == 320

MIN_CHUNK_SIZE == 3200

MAX_CHUNK_SIZE == 102400

\* The WAV answers of the TTS service (16-bit samples): frames per channel,
\* frame rate, channels. The TTS service of the deployment answers at 24 kHz.
WavInputs == {[nframes |-> 13500, framerate |-> 24000, channels |-> 1]}

\* TTSClient._wav_to_pcm: the byte length of the PCM it returns, None where
\* it raises (reshape(-1, 2) of an odd number of values).
WavToPcm(w) ==
    LET values == w.nframes * w.channels
        resampled == IF w.framerate /= SAMPLE_RATE
                     THEN (values * SAMPLE_RATE) \div w.framerate
                     ELSE values
    IN
    IF w.channels = 2 /\ resampled % 2 /= 0 THEN None
    ELSE IF w.channels = 2 THEN Some(2 * (resampled \div 2))
    ELSE Some(2 * resampled)

\* Byte lengths of the PCM that TTSClient.synthesize may return; None stands
\* for a failed synthesis (or empty audio), which the caller treats alike.
PcmLengths == {WavToPcm(w)[1] : w \in {x \in WavInputs : WavToPcm(x) /= None}}

SynthOutcomes == {None} \cup {Some(n) : n \in PcmLengths}

SplitChunkSize == 6400

\* _split_audio_chunks: the byte lengths of the chunks, in order
RECURSIVE SplitAudioChunks(_)
SplitAudioChunks(n) ==
    IF n <= 0 THEN <<>>
    ELSE <<Min(n, SplitChunkSize)>> \o SplitAudioChunks(n - Min(n, SplitChunkSize))

\* silence = b"\x00\x00" * int(SAMPLE_RATE * (200 / 1000.0))
SilenceBytes == 2 * ((SAMPLE_RATE * 200) \div 1000)

MediaItem(text, n) == [type |-> "media", name |-> text, len |-> n]
ClearItem == [type |-> "clear", name |-> "None", len |-> 0]
MarkItem(name) == [type |-> "mark", name |-> name, len |-> 0]

RECURSIVE MediaItems(_, _)
MediaItems(text, lens) ==
    IF lens = <<>> THEN <<>>
    ELSE <<MediaItem(text, Head(lens))>> \o MediaItems(text, Tail(lens))

\* Mutant of NextSequence: the counter is read but not advanced.
NextSequenceStale(st) == st.sequence_number

\* StreamState.next_sequence: the counter after the increment
NextSequence(st) == st.sequence_number + 1

\* Mutant of ResponseItems: a failed synthesis queues no silence.
ResponseItemsNoSilence(text, pcm, seq) ==
    <<ClearItem>>
    \o (IF pcm /= None THEN MediaItems(text, SplitAudioChunks(pcm[1]))
        ELSE <<>>)
    \o <<MarkItem(<<"response", seq>>)>>

\* Mutant of ResponseItems: the mark is queued before the audio.
ResponseItemsMarkFirst(text, pcm, seq) ==
    <<ClearItem>>
    \o <<MarkItem(<<"response", seq>>)>>
    \o (IF pcm /= None THEN MediaItems(text, SplitAudioChunks(pcm[1]))
        ELSE <<MediaItem("silence", SilenceBytes)>>)

\* What _send_audio_response puts on the emptied queue for the audio pcm
\* (None: synthesis failed) once the mark id has been drawn.
ResponseItems(text, pcm, seq) ==
    <<ClearItem>>
    \o (IF pcm /= None THEN MediaItems(text, SplitAudioChunks(pcm[1]))
        ELSE <<MediaItem("silence", SilenceBytes)>>)
    \o <<MarkItem(<<"response", seq>>)>>

\* _send_audio_response after tts.synthesize returned: everything from
\* "state.last_response = text" to the put of the mark runs without suspending.
QueueResponse(text, pcm) ==
    /\ stream' = Some([stream[1] EXCEPT !.last_response = text,
                                         !.sequence_number = NextSequence(stream[1])])
    /\ output_queue' = ResponseItems(text, pcm, NextSequence(stream[1]))
    /\ flushes' = Append(flushes, Len(wire))
    /\ enq' = enq \o ResponseItems(text, pcm, NextSequence(stream[1]))

StreamEvent(op, dtmf, from, text) ==
    Event(op, StreamCall, dtmf, from, Result(None, text, FALSE, 0))

StreamStep ==
    /\ service = "stream"
    /\ UNCHANGED <<service, nerveVars, nEvents, ttsVars, turnVars,
                   gwVars,
                   vcVars, chain, script, ws, legacy>>

\* event "start": the stream state, the sender task and the greeting task
\* (Exotel sends one start per connection)
StreamStart ==
    /\ StreamStep
    /\ loop.pc = "recv" /\ stream = None
    /\ stream' = Some(NewStreamState)
    /\ sender' = [pc |-> "get", item |-> None]
    /\ greeting' = "synth"
    /\ last' = StreamEvent("start", <<>>, "None", "None")
    /\ UNCHANGED <<output_queue, loop, wire, flushes, enq>>

\* events that change nothing the model tracks: "connected", "media" (the
\* conversation state is never LISTENING, so the buffer is only appended
\* to), and any event before "start"
StreamOtherMessage ==
    /\ StreamStep
    /\ loop.pc = "recv"
    /\ last' = StreamEvent("other", <<>>,
                           IF stream = None THEN "None"
                           ELSE stream[1].conversation_state, "None")
    /\ UNCHANGED streamVars

\* event "dtmf": handle_dtmf, then _send_audio_response up to its await
StreamDtmf(digit) ==
    /\ StreamStep
    /\ loop.pc = "recv" /\ stream /= None
    /\ LET r == HandleDtmf(stream[1], digit)
       IN /\ stream' = Some(r.st)
          /\ loop' = IF r.text /= "None" THEN [pc |-> "synth", text |-> r.text]
                     ELSE loop
          /\ last' = StreamEvent("stream_dtmf", <<digit>>,
                                 stream[1].conversation_state, r.text)
    /\ UNCHANGED <<output_queue, greeting, sender, wire, flushes, enq>>

\* the message loop's _send_audio_response resumes with the synthesis result
LoopSynthesized(pcm) ==
    /\ StreamStep
    /\ loop.pc = "synth"
    /\ QueueResponse(loop.text, pcm)
    /\ loop' = [pc |-> "recv", text |-> "None"]
    /\ UNCHANGED <<greeting, sender, wire, last>>

\* the greeting task's _send_audio_response resumes with the synthesis result
GreetingSynthesized(pcm) ==
    /\ StreamStep
    /\ greeting = "synth"
    /\ QueueResponse("greeting", pcm)
    /\ greeting' = "done"
    /\ UNCHANGED <<loop, sender, wire, last>>

\* the finally block of handle_connection: the sender task is cancelled
CloseConnection ==
    /\ loop' = [pc |-> "closed", text |-> "None"]
    /\ sender' = IF sender.pc = "none" THEN sender
                 ELSE [pc |-> "cancelled", item |-> None]

MarkNamesSent == {wire[i].name : i \in {j \in 1..Len(wire) : wire[j].type = "mark"}}

\* event "mark": the peer acknowledges a mark it received
StreamMark(name) ==
    /\ StreamStep
    /\ loop.pc = "recv" /\ stream /= None
    /\ name \in MarkNamesSent
    /\ stream' = Some([stream[1] EXCEPT !.last_mark = name])
    /\ IF stream[1].conversation_state = "completed"
       THEN CloseConnection
       ELSE UNCHANGED <<loop, sender>>
    /\ last' = StreamEvent("mark", <<>>, stream[1].conversation_state, "None")
    /\ UNCHANGED <<output_queue, greeting, wire, flushes, enq>>

MalformedKinds == {"invalid_json", "bad_payload"}

\* Mutant of StreamMalformed: the exception leaves the message loop.
StreamMalformedEndsCall(kind) ==
    /\ StreamStep
    /\ loop.pc = "recv"
    /\ kind = "bad_payload" => stream /= None
    /\ CloseConnection
    /\ last' = StreamEvent("malformed", <<>>,
                           IF stream = None THEN "None"
                           ELSE stream[1].conversation_state, "None")
    /\ UNCHANGED <<stream, output_queue, greeting, wire, flushes, enq>>

\* a message that json.loads rejects (JSONDecodeError), or a media message
\* of a started stream whose payload base64.b64decode rejects: the
\* exception is raised before anything is written, is caught inside the
\* loop and logged, and the loop goes on to the next message
StreamMalformed(kind) ==
    /\ StreamStep
    /\ loop.pc = "recv"
    /\ kind = "bad_payload" => stream /= None
    /\ last' = StreamEvent("malformed", <<>>,
                           IF stream = None THEN "None"
                           ELSE stream[1].conversation_state, "None")
    /\ UNCHANGED streamVars

\* event "stop", or the peer disconnects
StreamStop ==
    /\ StreamStep
    /\ loop.pc = "recv"
    /\ CloseConnection
    /\ last' = StreamEvent("stop", <<>>,
                           IF stream = None THEN "None"
                           ELSE stream[1].conversation_state, "None")
    /\ UNCHANGED <<stream, output_queue, greeting, wire, flushes, enq>>

\* _audio_sender: item = await state.output_queue.get() returns and the
\* message is built; a media or mark message draws state.next_sequence().
SenderGet ==
    /\ StreamStep
    /\ sender.pc = "get" /\ output_queue /= <<>>
    /\ LET item == Head(output_queue)
           seq  == IF item.type = "clear" THEN 0
                   ELSE NextSequence(stream[1])
       IN /\ sender' = [pc |-> "send",
                        item |-> Some([type |-> item.type, name |-> item.name,
                                       len |-> item.len,
                                       sequence_number |-> seq])]
          /\ stream' = IF item.type = "clear" THEN stream
                       ELSE Some([stream[1] EXCEPT !.sequence_number = seq])
    /\ output_queue' = Tail(output_queue)
    /\ UNCHANGED <<loop, greeting, wire, flushes, enq, last>>

\* _audio_sender: websocket.send_json(...) writes the frame. The await may
\* write at once or suspend first (a server that waits for the transport to
\* be writable before it writes), so the write is a step of its own that
\* may directly follow SenderGet.
SenderSend ==
    /\ StreamStep
    /\ sender.pc = "send"
    /\ wire' = Append(wire, sender.item[1])
    /\ sender' = [pc |-> "get", item |-> None]
    /\ UNCHANGED <<stream, output_queue, loop, greeting, flushes, enq, last>>

StreamInit ==
    /\ stream = None
    /\ output_queue = <<>>
    /\ loop = [pc |-> "recv", text |-> "None"]
    /\ greeting = "none"
    /\ sender = [pc |-> "none", item |-> None]
    /\ wire = <<>>
    /\ flushes = <<>>
    /\ enq = <<>>
    /\ enq = <<>>

StreamNext ==
    \/ StreamStart
    \/ StreamOtherMessage
    \/ \E kind \in MalformedKinds : StreamMalformed(kind)
    \/ \E d \in StreamDigits : StreamDtmf(d)
    \/ \E pcm \in SynthOutcomes : LoopSynthesized(pcm)
    \/ \E pcm \in SynthOutcomes : GreetingSynthesized(pcm)
    \/ \E name \in MarkNamesSent : StreamMark(name)
    \/ StreamStop
    \/ SenderGet
    \/ SenderSend

----------------------------------------------------------------------------
(* nerve_system.py: TTSCache *)

\* Number of synthesize calls explored; each caller makes one call.
MaxCalls == 3

SynthCallers == 1..MaxCalls

\* Strings are sequences of tokens, so that the key is built as the code
\* builds it.
Texts == {<<"greeting">>, <<"accepted">>}
Languages == {<<"hi">>, <<"en">>}
Voices == {<<"hindi_female">>}

\* What the TTS service answers; it is free to answer the same request
\* with different bytes.
AudioBytes == {"w1", "w2"}

\* f"{text}:{language}:{voice}"; the md5 digest stands for the content it
\* is taken of (digest collisions aside).
cache_key(text, language, voice) == text \o <<":">> \o language \o <<":">> \o voice

CacheKeys ==
    {cache_key(t, l, v) : t \in Texts, l \in Languages, v \in Voices}

\* Mutant of CachePut: the store drops the other entries.
CachePutDropsOthers(c, key, audio) == [k \in {key} |-> audio]

\* self.cache[key] = audio_data
CachePut(c, key, audio) ==
    [k \in DOMAIN c \cup {key} |-> IF k = key THEN audio ELSE c[k]]

IdleCaller == [pc |-> "idle", key |-> None, nstores |-> 0, posted |-> FALSE,
               result |-> None]

\* synthesize up to its first suspension: a hit returns the cached bytes,
\* a miss posts to the TTS service and waits for the answer.
Synthesize(t, text, language, voice) ==
    /\ service = "tts"
    /\ synth[t].pc = "idle"
    /\ LET key == cache_key(text, language, voice) IN
       IF key \in DOMAIN cache
       THEN /\ synth' = [synth EXCEPT ![t] =
                            [pc |-> "returned", key |-> key,
                             nstores |-> Len(stores[key]), posted |-> FALSE,
                             result |-> Some(cache[key])]]
            /\ UNCHANGED upstream
       ELSE /\ synth' = [synth EXCEPT ![t] =
                            [pc |-> "post", key |-> key,
                             nstores |-> Len(stores[key]), posted |-> TRUE,
                             result |-> None]]
            /\ upstream' = [upstream EXCEPT ![key] = @ + 1]
    /\ UNCHANGED <<cache, stores, service, nerveVars, nEvents, last,
                   streamVars, turnVars,
                   gwVars,
                   vcVars, chain, script, ws, legacy>>

\* the POST answers 200: the bytes are stored and returned
PostReturns(t, audio) ==
    /\ service = "tts"
    /\ synth[t].pc = "post"
    /\ cache' = CachePut(cache, synth[t].key, audio)
    /\ stores' = [stores EXCEPT ![synth[t].key] = Append(@, audio)]
    /\ synth' = [synth EXCEPT ![t].pc = "returned", ![t].result = Some(audio)]
    /\ UNCHANGED <<upstream, service, nerveVars, nEvents, last, streamVars,
                   turnVars,
                   gwVars,
                   vcVars, chain, script, ws, legacy>>

\* the POST fails or raise_for_status raises: the exception is re-raised
PostRaises(t) ==
    /\ service = "tts"
    /\ synth[t].pc = "post"
    /\ synth' = [synth EXCEPT ![t].pc = "raised"]
    /\ UNCHANGED <<cache, upstream, stores, service, nerveVars, nEvents, last,
                   streamVars, turnVars,
                   gwVars,
                   vcVars, chain, script, ws, legacy>>

TTSInit ==
    /\ cache = <<>>
    /\ synth = [t \in SynthCallers |-> IdleCaller]
    /\ upstream = [k \in CacheKeys |-> 0]
    /\ stores = [k \in CacheKeys |-> <<>>]

TTSNext ==
    \/ \E t \in SynthCallers, text \in Texts, l \in Languages, v \in Voices :
           Synthesize(t, text, l, v)
    \/ \E t \in SynthCallers, audio \in AudioBytes : PostReturns(t, audio)
    \/ \E t \in SynthCallers : PostRaises(t)

----------------------------------------------------------------------------
(* Turn detection: streaming-asr websocket_stream and the voice-gateway    *)
(* TurnTakingEngine. Probabilities are in tenths, times in milliseconds.   *)

\* Number of audio frames fed to a detector.
MaxFrames == 4

VadProbs == {1, 5, 8}

\* streaming-asr/main.py (its SAMPLE_RATE; the name SAMPLE_RATE is the
\* streaming service's above)
ASR_SAMPLE_RATE == 16000
VAD_THRESHOLD == 5
SILENCE_DURATION_MS == 700

\* Samples per chunk: chunks of half the silence threshold.
AsrChunkSamples == (ASR_SAMPLE_RATE * (SILENCE_DURATION_MS \div 2)) \div 1000

\* silence_ms = (silence_frames * len(audio_chunk) / SAMPLE_RATE) * 1000
SilenceMs(silence_frames, chunkLen) ==
    (silence_frames * chunkLen * 1000) \div ASR_SAMPLE_RATE

NewAsr == [silence_frames |-> 0, speech_started |-> FALSE, buffered |-> 0,
           sent |-> <<>>]

\* One iteration of the receive loop of websocket_stream.
AsrProcess(a, speech_prob, transcribed) ==
    LET vadMsg == <<"vad">> IN
    IF speech_prob >= VAD_THRESHOLD
    THEN [a EXCEPT !.silence_frames = 0,
                   !.buffered = @ + 1,
                   !.speech_started = TRUE,
                   !.sent = @ \o (IF a.speech_started THEN <<>>
                                  ELSE <<"speech_start">>) \o vadMsg]
    ELSE IF ~a.speech_started
    THEN [a EXCEPT !.sent = @ \o vadMsg]
    ELSE IF SilenceMs(a.silence_frames + 1, AsrChunkSamples) >= SILENCE_DURATION_MS
    THEN [silence_frames |-> 0, speech_started |-> FALSE, buffered |-> 0,
          sent |-> a.sent \o <<"speech_end">>
                   \o (IF transcribed THEN <<"transcription">> ELSE <<>>)
                   \o vadMsg]
    ELSE [a EXCEPT !.silence_frames = @ + 1,
                   !.buffered = @ + 1,
                   !.sent = @ \o vadMsg]

AsrFrame(speech_prob, transcribed) ==
    /\ service = "asr"
    /\ Len(frames) < MaxFrames
    /\ frames' = Append(frames, speech_prob)
    /\ asr' = AsrProcess(asr, speech_prob, transcribed)
    /\ UNCHANGED <<engine, now, engineB, nowB, service, nerveVars, nEvents,
                   last, streamVars, ttsVars,
                   gwVars,
                   vcVars, chain, script, ws, legacy>>

\* voice-gateway/main.py: GatewayConfig
vad_threshold == 5
vad_min_silence_duration == 500

\* Duration of one frame fed to the gateway: half the silence threshold.
GatewayFrameMs == vad_min_silence_duration \div 2

\* Wall-clock time between the arrivals of two frames: a burst, real time,
\* or a stalled connection.
Delays == {0, GatewayFrameMs, 2 * GatewayFrameMs}

NewEngine == [silence_start |-> None, is_user_speaking |-> FALSE,
              is_ai_speaking |-> FALSE, events |-> <<>>]

\* Mutant of ProcessAudioChunk: an interruption is signalled but the
\* is-AI-speaking flag is left set.
ProcessAudioChunkKeepsAiFlag(e, speech_prob, t) ==
    LET is_speech == speech_prob >= vad_threshold
        e1 == [e EXCEPT !.is_user_speaking = is_speech]
    IN
    IF is_speech /\ e.is_ai_speaking
    THEN [e1 EXCEPT !.events = Append(@, "interrupted")]
    ELSE IF is_speech /\ ~e.is_user_speaking
    THEN [e1 EXCEPT !.silence_start = None,
                    !.events = Append(@, "speech_start")]
    ELSE e1

\* TurnTakingEngine.process_audio_chunk at wall-clock time t
ProcessAudioChunk(e, speech_prob, t) ==
    LET is_speech == speech_prob >= vad_threshold
        was_speaking == e.is_user_speaking
        e1 == [e EXCEPT !.is_user_speaking = is_speech]
        e2 == IF ~is_speech /\ was_speaking
              THEN [e1 EXCEPT !.silence_start = Some(t)] ELSE e1
    IN
    IF is_speech /\ e.is_ai_speaking
    THEN [e1 EXCEPT !.is_ai_speaking = FALSE,
                    !.events = Append(@, "interrupted")]
    ELSE IF is_speech /\ ~was_speaking
    THEN [e1 EXCEPT !.silence_start = None,
                    !.events = Append(@, "speech_start")]
    ELSE IF e2.silence_start /= None
            /\ t - e2.silence_start[1] >= vad_min_silence_duration
    THEN [e2 EXCEPT !.silence_start = None,
                    !.events = Append(@, "speech_end")]
    ELSE e2

GatewayFrame(speech_prob, delay) ==
    /\ service = "gateway"
    /\ Len(frames) < MaxFrames
    /\ frames' = Append(frames, speech_prob)
    /\ now' = now + delay
    /\ engine' = ProcessAudioChunk(engine, speech_prob, now')
    /\ UNCHANGED <<asr, engineB, nowB, service, nerveVars, nEvents, last,
                   streamVars, ttsVars,
                   gwVars,
                   vcVars, chain, script, ws, legacy>>

\* TurnTakingEngine.set_ai_speaking, around the playback of a reply
SetAiSpeaking(is_speaking) ==
    /\ service = "gateway"
    /\ engine.is_ai_speaking /= is_speaking
    /\ engine' = [engine EXCEPT !.is_ai_speaking = is_speaking]
    /\ UNCHANGED <<frames, asr, now, engineB, nowB, service, nerveVars, nEvents,
                   last, streamVars, ttsVars,
                   gwVars,
                   vcVars, chain, script, ws, legacy>>

TurnInit ==
    /\ frames = <<>>
    /\ asr = NewAsr
    /\ engine = NewEngine
    /\ now = 0
    /\ engineB = NewEngine
    /\ nowB = 0

TurnNext ==
    \/ \E p \in VadProbs, transcribed \in BOOLEAN : AsrFrame(p, transcribed)
    \/ \E p \in VadProbs, delay \in Delays : GatewayFrame(p, delay)
    \/ \E b \in BOOLEAN : SetAiSpeaking(b)

\* Two runs of the TurnTakingEngine fed the same frames, each with its own
\* delivery delays.
PairFrame(speech_prob, delay, delayB) ==
    /\ service = "gateway_pair"
    /\ Len(frames) < MaxFrames
    /\ frames' = Append(frames, speech_prob)
    /\ now' = now + delay
    /\ nowB' = nowB + delayB
    /\ engine' = ProcessAudioChunk(engine, speech_prob, now')
    /\ engineB' = ProcessAudioChunk(engineB, speech_prob, nowB')
    /\ UNCHANGED <<asr, service, nerveVars, nEvents, last, streamVars, ttsVars,
                   gwVars,
                   vcVars, chain, script, ws, legacy>>

\* set_ai_speaking at the same point of both runs
PairSetAiSpeaking(is_speaking) ==
    /\ service = "gateway_pair"
    /\ engine.is_ai_speaking /= is_speaking
    /\ engine' = [engine EXCEPT !.is_ai_speaking = is_speaking]
    /\ engineB' = [engineB EXCEPT !.is_ai_speaking = is_speaking]
    /\ UNCHANGED <<frames, asr, now, nowB, service, nerveVars, nEvents, last,
                   streamVars, ttsVars,
                   gwVars,
                   vcVars, chain, script, ws, legacy>>

TurnPairNext ==
    \/ \E p \in VadProbs, d \in Delays, dB \in Delays : PairFrame(p, d, dB)
    \/ \E b \in BOOLEAN : PairSetAiSpeaking(b)

----------------------------------------------------------------------------
(* voice-gateway/main.py: SessionManager and the endpoints that use it *)

\* Number of requests and messages the gateway handles.
MaxOps == 4

\* GatewayConfig.max_concurrent_sessions is read from MAX_CONCURRENT_SESSIONS
\* (default 10); the gateway explored here is configured with this ceiling.
max_concurrent_sessions == 2

SessionIds == 1..MaxOps

\* VoiceSession(...) as create_session builds it; kind is
\* metadata["call_type"], stale tells that last_activity is older than
\* session_timeout_seconds.
NewVoiceSession(kind) ==
    [state |-> "idle", turns |-> 0, stale |-> FALSE, kind |-> kind]

NoGwTasks == [outbound |-> FALSE, ws |-> "none"]

\* SessionManager.get_session
GetSession(ss, id) == IF id \in DOMAIN ss THEN Some(ss[id]) ELSE None

\* Mutant of CreateSession: the ceiling is not tested.
CreateSessionNoCeiling(ss, id, kind) ==
    Some([k \in DOMAIN ss \cup {id} |->
             IF k = id THEN NewVoiceSession(kind) ELSE ss[k]])

\* SessionManager.create_session, under the lock: None where it raises
CreateSession(ss, id, kind) ==
    IF Cardinality(DOMAIN ss) >= max_concurrent_sessions THEN None
    ELSE Some([k \in DOMAIN ss \cup {id} |->
                  IF k = id THEN NewVoiceSession(kind) ELSE ss[k]])

\* SessionManager.update_state
UpdateState(ss, id, state) ==
    IF id \in DOMAIN ss
    THEN [ss EXCEPT ![id].state = state, ![id].stale = FALSE]
    ELSE ss

\* SessionManager.add_turn
AddTurn(ss, id) ==
    IF id \in DOMAIN ss
    THEN [ss EXCEPT ![id].turns = @ + 1, ![id].stale = FALSE]
    ELSE ss

\* SessionManager.end_session: the session is marked and a cleanup task is
\* created (last_activity is not touched)
EndSessionMark(ss, id) ==
    IF id \in DOMAIN ss THEN [ss EXCEPT ![id].state = "ended"] ELSE ss

EndSessionTasks(ss, ct, id) ==
    IF id \in DOMAIN ss THEN [ct EXCEPT ![id] = @ + 1] ELSE ct

\* What process_call_input returns and reports: the reply, whether the
\* reply starts with "[END]" (exotel_input then answers with a Hangup
\* instead of a Gather), the action reported to Jupiter and its
\* prepTimeMinutes.
CallReply(reply, end, action, prep) ==
    [ reply |-> reply, end |-> end, action |-> action, prep |-> prep ]

NoCallReply == CallReply("None", FALSE, "None", None)

\* "prep_time_asked" in session.metadata: the key is never written; the
\* metadata of a session holds call_type, data, callback_url and phone.
PrepTimeAsked(session) == FALSE

PrepTimes(dtmf) ==
    CASE dtmf = "1" -> 15
      [] dtmf = "2" -> 30
      [] dtmf = "3" -> 45
      [] OTHER -> 30

\* process_call_input for Digits = dtmf (the rider_assignment branch is
\* not taken by the call types modelled)
ProcessCallInput(session, dtmf) ==
    IF session.kind = "vendor_order_confirmation" /\ dtmf = "1"
    THEN CallReply("prep_time_menu", FALSE, "None", None)
    ELSE IF session.kind = "vendor_order_confirmation" /\ dtmf = "2"
    THEN CallReply("rejected_goodbye", TRUE, "order_rejected", None)
    ELSE IF /\ session.kind = "vendor_order_confirmation"
            /\ dtmf \in {"1", "2", "3"}
            /\ PrepTimeAsked(session)
    THEN CallReply("accepted_goodbye", TRUE, "order_accepted",
                   Some(PrepTimes(dtmf)))
    ELSE CallReply("not_understood", FALSE, "None", None)

\* process_call_input: the number of reports it makes
CallInputReports(session, dtmf) ==
    IF ProcessCallInput(session, dtmf).action /= "None" THEN 1 ELSE 0

GwEvent(op, id, result) ==
    [op |-> op, id |-> id, result |-> result, dtmf |-> "None",
     input |-> NoCallReply]

GwStep ==
    /\ service = "gateway_sessions"
    /\ nEvents < MaxOps
    /\ nEvents' = nEvents + 1
    /\ UNCHANGED <<service, nerveVars, last, streamVars, ttsVars, turnVars,
                   vcVars, chain, script, ws, legacy>>

\* The completion of a suspended handler or task of the gateway
GwInternal ==
    /\ service = "gateway_sessions"
    /\ UNCHANGED <<service, nerveVars, nEvents, last, streamVars, ttsVars,
                   turnVars, vcVars, chain, script, ws, legacy>>

CallKinds == {"vendor_order_confirmation", "default"}

InputDigits == {"1", "2", "3"}

IssuedIds == 1..(nextSid - 1)

\* POST /api/voice/outbound-call, up to the await of the Exotel request
OutboundCall(kind) ==
    /\ GwStep
    /\ LET r == CreateSession(sessions, nextSid, kind) IN
       IF r = None
       THEN /\ gwLast' = GwEvent("outbound_call", nextSid, "error")
            /\ UNCHANGED <<sessions, gwTasks, nextSid>>
       ELSE /\ sessions' = r[1]
            /\ gwTasks' = [gwTasks EXCEPT ![nextSid].outbound = TRUE]
            /\ nextSid' = nextSid + 1
            /\ gwLast' = GwEvent("outbound_call", nextSid, "created")
    /\ UNCHANGED <<cleanupTasks, gwReports>>

\* initiate_outbound_call after exotel_client.initiate_call returned
OutboundInitiated(id) ==
    /\ GwInternal
    /\ gwTasks[id].outbound
    /\ gwTasks' = [gwTasks EXCEPT ![id].outbound = FALSE]
    /\ sessions' = UpdateState(sessions, id, "listening")
    /\ gwLast' = GwEvent("outbound_initiated", id, "ok")
    /\ UNCHANGED <<cleanupTasks, gwReports, nextSid>>

\* exotel_client.initiate_call raised: HTTP 500, the session stays
OutboundFailed(id) ==
    /\ GwInternal
    /\ gwTasks[id].outbound
    /\ gwTasks' = [gwTasks EXCEPT ![id].outbound = FALSE]
    /\ gwLast' = GwEvent("outbound_initiated", id, "error")
    /\ UNCHANGED <<sessions, cleanupTasks, gwReports, nextSid>>

\* POST /api/voice/exotel-callback/{id}; ended: Status is completed, failed,
\* busy or no-answer
ExotelCallback(id, ended) ==
    /\ GwStep
    /\ IF GetSession(sessions, id) = None
       THEN /\ gwLast' = GwEvent("exotel_callback", id, "404")
            /\ UNCHANGED <<sessions, cleanupTasks>>
       ELSE IF ended
       THEN /\ sessions' = EndSessionMark(sessions, id)
            /\ cleanupTasks' = EndSessionTasks(sessions, cleanupTasks, id)
            /\ gwLast' = GwEvent("exotel_callback", id, "session_ended")
       ELSE /\ gwLast' = GwEvent("exotel_callback", id, "prompt")
            /\ UNCHANGED <<sessions, cleanupTasks>>
    /\ UNCHANGED <<gwTasks, gwReports, nextSid>>

\* POST /api/voice/exotel-input/{id} with Digits = dtmf
ExotelInput(id, dtmf) ==
    /\ GwStep
    /\ IF GetSession(sessions, id) = None
       THEN /\ gwLast' = GwEvent("exotel_input", id, "404")
            /\ UNCHANGED gwReports
       ELSE /\ gwReports' = [gwReports EXCEPT
                                ![id] = @ + CallInputReports(sessions[id], dtmf)]
            /\ gwLast' = [GwEvent("exotel_input", id, "answered") EXCEPT
                              !.dtmf = dtmf,
                              !.input = ProcessCallInput(sessions[id], dtmf)]
    /\ UNCHANGED <<sessions, gwTasks, cleanupTasks, nextSid>>

\* /ws/voice/{id}: the connection uses the session it finds, whatever its
\* state, and creates one where it finds none
WsConnect(id) ==
    /\ GwStep
    /\ gwTasks[id].ws = "none"
    /\ IF GetSession(sessions, id) /= None
       THEN /\ gwTasks' = [gwTasks EXCEPT ![id].ws = "open"]
            /\ gwLast' = GwEvent("ws_connect", id, "attached")
            /\ UNCHANGED <<sessions, nextSid>>
       ELSE LET r == CreateSession(sessions, nextSid, "default") IN
            IF r = None
            THEN /\ gwLast' = GwEvent("ws_connect", nextSid, "error")
                 /\ UNCHANGED <<sessions, gwTasks, nextSid>>
            ELSE /\ sessions' = r[1]
                 /\ gwTasks' = [gwTasks EXCEPT ![nextSid].ws = "open"]
                 /\ nextSid' = nextSid + 1
                 /\ gwLast' = GwEvent("ws_connect", nextSid, "created")
    /\ UNCHANGED <<cleanupTasks, gwReports>>

\* a text message on the websocket: process_text_input up to its first await
WsText(id) ==
    /\ GwStep
    /\ gwTasks[id].ws = "open"
    /\ sessions' = AddTurn(UpdateState(sessions, id, "processing"), id)
    /\ gwTasks' = [gwTasks EXCEPT ![id].ws = "busy"]
    /\ gwLast' = GwEvent("ws_text", id, "processing")
    /\ UNCHANGED <<cleanupTasks, gwReports, nextSid>>

\* process_text_input after the orchestrator (and TTS) answered
WsTextDone(id, ok) ==
    /\ GwInternal
    /\ gwTasks[id].ws = "busy"
    /\ sessions' = UpdateState(IF ok THEN AddTurn(sessions, id) ELSE sessions,
                               id, "listening")
    /\ gwTasks' = [gwTasks EXCEPT ![id].ws = "open"]
    /\ gwLast' = GwEvent("ws_text_done", id, "listening")
    /\ UNCHANGED <<cleanupTasks, gwReports, nextSid>>

\* the websocket loop ends (message "end", disconnect, or an exception of a
\* request made for it): finally end_session
WsClose(id) ==
    /\ GwInternal
    /\ gwTasks[id].ws /= "none"
    /\ sessions' = EndSessionMark(sessions, id)
    /\ cleanupTasks' = EndSessionTasks(sessions, cleanupTasks, id)
    /\ gwTasks' = [gwTasks EXCEPT ![id].ws = "none"]
    /\ gwLast' = GwEvent("ws_close", id, "ended")
    /\ UNCHANGED <<gwReports, nextSid>>

\* DELETE /api/sessions/{id}
EndSessionApi(id) ==
    /\ GwStep
    /\ sessions' = EndSessionMark(sessions, id)
    /\ cleanupTasks' = EndSessionTasks(sessions, cleanupTasks, id)
    /\ gwLast' = GwEvent("end_session", id, "ended")
    /\ UNCHANGED <<gwTasks, gwReports, nextSid>>

\* _delayed_cleanup after its sleep
DelayedCleanup(id) ==
    /\ GwInternal
    /\ cleanupTasks[id] > 0
    /\ cleanupTasks' = [cleanupTasks EXCEPT ![id] = @ - 1]
    /\ sessions' = [k \in DOMAIN sessions \ {id} |-> sessions[k]]
    /\ gwLast' = GwEvent("delayed_cleanup", id,
                         IF id \in DOMAIN sessions THEN "removed" ELSE "absent")
    /\ UNCHANGED <<gwTasks, gwReports, nextSid>>

\* Time passes until the session's last_activity is older than
\* session_timeout_seconds.
TimePasses(id) ==
    /\ GwInternal
    /\ id \in DOMAIN sessions
    /\ ~sessions[id].stale
    /\ sessions' = [sessions EXCEPT ![id].stale = TRUE]
    /\ UNCHANGED <<gwTasks, cleanupTasks, gwReports, nextSid, gwLast>>

GwInit ==
    /\ sessions = <<>>
    /\ gwTasks = [id \in SessionIds |-> NoGwTasks]
    /\ cleanupTasks = [id \in SessionIds |-> 0]
    /\ gwReports = [id \in SessionIds |-> 0]
    /\ nextSid = 1
    /\ gwLast = GwEvent("init", 0, "None")

GwNext ==
    \/ \E kind \in CallKinds : OutboundCall(kind)
    \/ \E id \in IssuedIds : OutboundInitiated(id)
    \/ \E id \in IssuedIds : OutboundFailed(id)
    \/ \E id \in IssuedIds, ended \in BOOLEAN : ExotelCallback(id, ended)
    \/ \E id \in IssuedIds, dtmf \in InputDigits : ExotelInput(id, dtmf)
    \/ \E id \in IssuedIds \cup {nextSid} : WsConnect(id)
    \/ \E id \in IssuedIds : WsText(id)
    \/ \E id \in IssuedIds, ok \in BOOLEAN : WsTextDone(id, ok)
    \/ \E id \in IssuedIds : WsClose(id)
    \/ \E id \in IssuedIds : EndSessionApi(id)
    \/ \E id \in IssuedIds : DelayedCleanup(id)

\* The gateway with the passing of time made explicit
GwTimedNext ==
    \/ GwNext
    \/ \E id \in IssuedIds : TimePasses(id)

----------------------------------------------------------------------------
(* nerve_system.py: initiate_vendor_call and generate_and_store_audio *)

\* tts_cache.synthesize returns bytes or raises (None).
TtsOutcomes == {None} \cup {Some(a) : a \in AudioBytes}

\* What the MinIO side of generate_and_store_audio does: get_minio_storage
\* returns None; upload_audio returns the URL; put_object raises S3Error,
\* which upload_audio turns into None; put_object raises another exception
\* (the connection fails), which upload_audio lets through; the upload
\* succeeds and upload_training_data lets an exception through.
StorageOutcomes ==
    {"no_storage", "uploaded", "s3error", "upload_raises", "training_raises"}

\* generate_and_store_audio(text, language): the URL, or None from its
\* except branch.
GenerateAndStoreAudio(language, tts, st) ==
    IF tts = None THEN None
    ELSE CASE st = "uploaded" -> Some(<<"minio", language, tts[1]>>)
           [] st \in {"no_storage", "s3error"} -> Some(<<"memory", tts[1]>>)
           [] OTHER -> None

\* custom_field["<name>"] = url, if url
WithUrl(custom_field, name, url) ==
    IF url = None THEN custom_field
    ELSE [k \in DOMAIN custom_field \cup {name} |->
             IF k = name THEN url[1] ELSE custom_field[k]]

IdleVendorCall ==
    [pc |-> "idle", language |-> "None", greeting_tts |-> None,
     accepted_tts |-> None, greeting_url |-> None, sent |-> None,
     success |-> FALSE]

\* POST /api/nerve/vendor-order-confirmation up to the first await: the
\* scripts are built and the greeting is given to the TTS cache.
VendorCallRequest(language) ==
    /\ service = "vendor_call"
    /\ vendor.pc = "idle"
    /\ vendor' = [IdleVendorCall EXCEPT !.pc = "greeting", !.language = language]
    /\ UNCHANGED <<service, nerveVars, nEvents, last, streamVars, ttsVars,
                   turnVars, gwVars, chain, script, ws, legacy>>

\* The greeting's generate_and_store_audio returns; the accepted prompt is
\* given to the TTS cache.
GreetingGenerated(tts, st) ==
    /\ service = "vendor_call"
    /\ vendor.pc = "greeting"
    /\ vendor' = [vendor EXCEPT
                     !.pc = "accepted",
                     !.greeting_tts = Some(tts /= None),
                     !.greeting_url =
                         GenerateAndStoreAudio(vendor.language, tts, st)]
    /\ UNCHANGED <<service, nerveVars, nEvents, last, streamVars, ttsVars,
                   turnVars, gwVars, chain, script, ws, legacy>>

\* The accepted prompt's generate_and_store_audio returns; the URLs that
\* exist are put into custom_field and exotel_client.initiate_call posts
\* Calls/connect.json with it.
AcceptedGenerated(tts, st) ==
    /\ service = "vendor_call"
    /\ vendor.pc = "accepted"
    /\ LET url == GenerateAndStoreAudio(vendor.language, tts, st)
           cf  == WithUrl(WithUrl([language |-> vendor.language],
                                  "greeting_audio_url", vendor.greeting_url),
                          "accepted_audio_url", url)
       IN vendor' = [vendor EXCEPT !.pc = "connect",
                                   !.accepted_tts = Some(tts /= None),
                                   !.sent = Some(cf)]
    /\ UNCHANGED <<service, nerveVars, nEvents, last, streamVars, ttsVars,
                   turnVars, gwVars, chain, script, ws, legacy>>

\* Exotel answers the connect request.
ConnectAnswered(ok) ==
    /\ service = "vendor_call"
    /\ vendor.pc = "connect"
    /\ vendor' = [vendor EXCEPT !.pc = "done", !.success = ok]
    /\ UNCHANGED <<service, nerveVars, nEvents, last, streamVars, ttsVars,
                   turnVars, gwVars, chain, script, ws, legacy>>

VendorInit == vendor = IdleVendorCall

VendorNext ==
    \/ \E l \in {"hi", "en"} : VendorCallRequest(l)
    \/ \E tts \in TtsOutcomes, st \in StorageOutcomes : GreetingGenerated(tts, st)
    \/ \E tts \in TtsOutcomes, st \in StorageOutcomes : AcceptedGenerated(tts, st)
    \/ \E ok \in BOOLEAN : ConnectAnswered(ok)

----------------------------------------------------------------------------
(* The fallback chains: asr-enhanced transcribe_with_fallback, tts-enhanced *)
(* synthesize_with_fallback, orchestrator-enhanced generate_response.      *)
(* A run is the sequence of providers called, each with whether it         *)
(* returned (TRUE) or raised (FALSE), and what the caller gets: the value  *)
(* of a provider, an exception, or a string built by the chain itself.     *)

\* oc[i] is whether the i-th provider call of the run returns.
ChainOutcomes == [1..3 -> BOOLEAN]

Called(calls, provider, oc) ==
    Append(calls, [provider |-> provider, ok |-> oc[Len(calls) + 1]])

Returned(calls) == [calls |-> calls, result |-> <<"value", calls[Len(calls)].provider>>]
Raised(calls) == [calls |-> calls, result |-> <<"exception">>]

indic_languages == {"hi", "mr"}

AsrInputs ==
    [fn : {"transcribe"}, language : {"hi", "mr", "en"},
     model_preference : {"auto", "whisper", "indic"},
     indic : BOOLEAN,      \* indic_asr_enabled and "indic" in models
     cloud : BOOLEAN]      \* enable_cloud_fallback and audio_bytes

TranscribeWithFallback(in, oc) ==
    LET use_indic ==
            /\ in.indic
            /\ \/ in.model_preference = "indic"
               \/ in.model_preference = "auto" /\ in.language \in indic_languages
        c1 == Called(<<>>, IF use_indic THEN "indic" ELSE "whisper", oc)
        c2 == IF use_indic THEN Called(c1, "whisper", oc) ELSE c1
        c3 == Called(c2, "deepgram", oc)
    IN  IF c1[1].ok THEN Returned(c1)
        ELSE IF use_indic /\ c2[2].ok THEN Returned(c2)
        ELSE IF in.cloud
             THEN IF c3[Len(c3)].ok THEN Returned(c3) ELSE Raised(c3)
             ELSE Raised(c2)

TtsInputs ==
    [fn : {"synthesize"}, language : {"hi", "mr", "en"},
     provider : {"chatterbox", "indic-parler", "kokoro", "cosyvoice"}]

SynthesizeWithFallback(in, oc) ==
    LET c1 == IF in.provider \in {"chatterbox", "indic-parler", "kokoro"}
              THEN Called(<<>>, in.provider, oc) ELSE <<>>
        c2 == IF in.language = "en" THEN Called(c1, "kokoro", oc) ELSE c1
        c3 == Called(c2, "indic-parler", oc)
    IN  IF c1 /= <<>> /\ c1[1].ok THEN Returned(c1)
        ELSE IF in.language = "en" /\ c2[Len(c2)].ok THEN Returned(c2)
        ELSE IF c3[Len(c3)].ok THEN Returned(c3) ELSE Raised(c3)

\* config.context_window_size (CONTEXT_WINDOW_SIZE, default 10): the
\* orchestrator explored here is configured with this window.
context_window_size == 1

\* A message of the history: its role and the exchange it belongs to.
Message(role, turn) == [role |-> role, turn |-> turn]

\* context_manager.sessions[session_id] after `turns` exchanges: every
\* writer of the history adds a user and an assistant message together.
StoredContext(turns) ==
    [i \in 1..(2 * turns) |->
        Message(IF i % 2 = 1 THEN "user" ELSE "assistant", (i + 1) \div 2)]

\* ConversationContext.add_message
AddMessage(ctx, msg) ==
    LET c == Append(ctx, msg) IN
    IF Len(c) > context_window_size * 2
    THEN SubSeq(c, Len(c) - context_window_size * 2 + 1, Len(c))
    ELSE c

\* turns: the exchanges of the session that the history holds at the call
LlmInputs ==
    [fn : {"generate"}, llm_provider : {"jupiter", "groq"},
     turns : 0..context_window_size]

\* "Update context" and return response
Answered(calls, ctx, turn) ==
    [calls |-> calls,
     result |-> <<"value", calls[Len(calls)].provider>>,
     context |-> AddMessage(AddMessage(ctx, Message("user", turn)),
                            Message("assistant", turn))]

\* Mutant of GenerateResponse: the failure of the fallback is raised.
GenerateResponseRaises(in, oc) ==
    LET ctx == StoredContext(in.turns)
        c1  == Called(<<>>, in.llm_provider, oc)
        c2  == Called(c1, "groq", oc)
    IN  IF c1[1].ok THEN Answered(c1, ctx, in.turns + 1)
        ELSE IF c2[2].ok THEN Answered(c2, ctx, in.turns + 1)
        ELSE [calls |-> c2, result |-> <<"exception">>, context |-> ctx]

GenerateResponse(in, oc) ==
    LET ctx == StoredContext(in.turns)
        c1  == Called(<<>>, in.llm_provider, oc)
        c2  == Called(c1, "groq", oc)
    IN  IF c1[1].ok THEN Answered(c1, ctx, in.turns + 1)
        ELSE IF c2[2].ok THEN Answered(c2, ctx, in.turns + 1)
        ELSE [calls |-> c2, result |-> <<"value", "apology text">>,
              context |-> ctx]

IdleChain ==
    [in |-> [fn |-> "none"], calls |-> <<>>, result |-> <<"none">>,
     context |-> <<>>]

\* One call of transcribe_with_fallback, run to its end.
Transcribe(in, oc) ==
    /\ service = "chain"
    /\ chain.in.fn = "none"
    /\ LET run == TranscribeWithFallback(in, oc)
       IN chain' = [in |-> in, calls |-> run.calls, result |-> run.result,
                    context |-> <<>>]
    /\ UNCHANGED <<service, nerveVars, nEvents, last, streamVars, ttsVars,
                   turnVars, gwVars, vcVars, script, ws, legacy>>

\* One call of synthesize_with_fallback, run to its end.
SynthesizeSpeech(in, oc) ==
    /\ service = "chain"
    /\ chain.in.fn = "none"
    /\ LET run == SynthesizeWithFallback(in, oc)
       IN chain' = [in |-> in, calls |-> run.calls, result |-> run.result,
                    context |-> <<>>]
    /\ UNCHANGED <<service, nerveVars, nEvents, last, streamVars, ttsVars,
                   turnVars, gwVars, vcVars, script, ws, legacy>>

\* One call of generate_response, run to its end.
Generate(in, oc) ==
    /\ service = "chain"
    /\ chain.in.fn = "none"
    /\ LET run == GenerateResponse(in, oc)
       IN chain' = [in |-> in, calls |-> run.calls, result |-> run.result,
                    context |-> run.context]
    /\ UNCHANGED <<service, nerveVars, nEvents, last, streamVars, ttsVars,
                   turnVars, gwVars, vcVars, script, ws, legacy>>

ChainInit == chain = IdleChain

ChainNext ==
    \/ \E in \in AsrInputs, oc \in ChainOutcomes : Transcribe(in, oc)
    \/ \E in \in TtsInputs, oc \in ChainOutcomes : SynthesizeSpeech(in, oc)
    \/ \E in \in LlmInputs, oc \in ChainOutcomes : Generate(in, oc)

----------------------------------------------------------------------------
(* The order-confirmation script in its three implementations, each run   *)
(* on a session of its own and fed the same keys: programmable_gather_     *)
(* handler and exotel_passthru_callback of nerve_system.py, and            *)
(* ConversationManager.handle_dtmf of voice_streaming_service.py.          *)

MaxKeys == 3

ScriptDigits == {"0", "1", "2", "3", "9"}

ScriptInit ==
    script = [ keys     |-> <<>>,
               gather   |-> NewCallState(0, "ANSWERED"),
               passthru |-> NewCallState(0, "ANSWERED"),
               stream   |-> NewStreamState ]

\* One key, handled by each implementation for its session.
PressKey(digit) ==
    /\ service = "script"
    /\ Len(script.keys) < MaxKeys
    /\ script' = [ keys     |-> Append(script.keys, digit),
                   gather   |-> GatherTransition(script.gather, <<digit>>).cs,
                   passthru |-> PassthruTransition(script.passthru, <<digit>>).cs,
                   stream   |-> HandleDtmf(script.stream, digit).st ]
    /\ UNCHANGED <<service, nerveVars, nEvents, last, streamVars, ttsVars,
                   turnVars, gwVars, vcVars, chain, ws, legacy>>

ScriptNext == \E digit \in ScriptDigits : PressKey(digit)

----------------------------------------------------------------------------
(* voice-gateway/main.py: websocket_voice_stream, one connection. The      *)
(* handler awaits process_audio_chunk, and through its on_speech_end       *)
(* callback process_speech_end, inside its receive loop: while the ASR,    *)
(* the orchestrator or the TTS service is awaited, chunks that arrive      *)
(* stay unread on the socket. The engine of the connection's session is    *)
(* `engine`, the chunks it has processed are `frames`.                     *)

\* One binary message: a quarter of a second of 16 kHz PCM16.
ChunkBytes == 8000

\* "if len(audio_bytes) < 16000: return"
MinSpeechBytes == 16000

HttpOutcomes == {"ok", "error", "raise"}

WsStep ==
    /\ service = "gateway_ws"
    /\ UNCHANGED <<service, asr, engineB, nowB, nerveVars, nEvents, last,
                   streamVars, ttsVars, gwVars, vcVars, chain, script, legacy>>

\* The client sends a chunk, delay after the one before it; the chunk
\* records whether the is-AI-speaking flag was set when it arrived.
ChunkArrives(speech_prob, delay) ==
    /\ WsStep
    /\ ws.pc /= "closed"
    /\ Len(frames) + Len(ws.inbox) < MaxFrames
    /\ now' = now + delay
    /\ ws' = [ws EXCEPT !.inbox = Append(@, [prob   |-> speech_prob,
                                             during |-> engine.is_ai_speaking])]
    /\ UNCHANGED <<frames, engine>>

\* websocket.receive() returns a binary message: the chunk is buffered and
\* process_audio_chunk runs; on speech_end, process_speech_end empties the
\* buffer and, with enough audio, goes on to the ASR request.
WsAudio ==
    /\ WsStep
    /\ ws.pc = "recv" /\ ws.inbox /= <<>>
    /\ LET chunk     == Head(ws.inbox)
           e         == ProcessAudioChunk(engine, chunk.prob, now)
           buffered  == ws.buffered + ChunkBytes
           speechEnd == /\ e.events /= engine.events
                        /\ e.events[Len(e.events)] = "speech_end"
       IN /\ engine' = e
          /\ frames' = Append(frames, chunk.prob)
          /\ ws' = [ pc       |-> IF speechEnd /\ buffered >= MinSpeechBytes
                                  THEN "asr" ELSE "recv",
                     inbox    |-> Tail(ws.inbox),
                     buffered |-> IF speechEnd THEN 0 ELSE buffered ]
    /\ UNCHANGED now

\* process_speech_end: the ASR answered
AsrAnswered(outcome) ==
    /\ WsStep
    /\ ws.pc = "asr"
    /\ ws' = [ws EXCEPT !.pc = CASE outcome = "ok"    -> "llm"
                                 [] outcome = "error" -> "recv"
                                 [] OTHER             -> "closed"]
    /\ UNCHANGED <<frames, engine, now>>

\* process_speech_end: the orchestrator answered; with a reply,
\* set_ai_speaking(True) and the TTS request
LlmAnswered(outcome) ==
    /\ WsStep
    /\ ws.pc = "llm"
    /\ ws' = [ws EXCEPT !.pc = CASE outcome = "ok"    -> "tts"
                                 [] outcome = "error" -> "recv"
                                 [] OTHER             -> "closed"]
    /\ engine' = IF outcome = "ok"
                 THEN [engine EXCEPT !.is_ai_speaking = TRUE] ELSE engine
    /\ UNCHANGED <<frames, now>>

\* process_speech_end: the TTS service answered and the audio was sent;
\* set_ai_speaking(False), unless the request raised
TtsAnswered(outcome) ==
    /\ WsStep
    /\ ws.pc = "tts"
    /\ ws' = [ws EXCEPT !.pc = IF outcome = "raise" THEN "closed" ELSE "recv"]
    /\ engine' = IF outcome = "raise" THEN engine
                 ELSE [engine EXCEPT !.is_ai_speaking = FALSE]
    /\ UNCHANGED <<frames, now>>

\* message "end", or the client disconnects
WsEnd ==
    /\ WsStep
    /\ ws.pc = "recv"
    /\ ws' = [ws EXCEPT !.pc = "closed"]
    /\ UNCHANGED <<frames, engine, now>>

WsInit == ws = [pc |-> "recv", inbox |-> <<>>, buffered |-> 0]

WsNext ==
    \/ \E p \in VadProbs, delay \in Delays : ChunkArrives(p, delay)
    \/ WsAudio
    \/ \E outcome \in HttpOutcomes : AsrAnswered(outcome)
    \/ \E outcome \in HttpOutcomes : LlmAnswered(outcome)
    \/ \E outcome \in HttpOutcomes : TtsAnswered(outcome)
    \/ WsEnd

----------------------------------------------------------------------------
(* voice-gateway/gateway.py: voice_websocket. Every connection creates a   *)
(* VoiceSession, stores it in the module's sessions map under the session  *)
(* id of its path, updates it through its local reference, and deletes     *)
(* the map's entry for that id when it ends.                               *)

\* Number of connections opened in a behaviour.
MaxConnects == 3

LegacyConns == {"a", "b"}

LegacySids == {"s1", "s2"}

\* Message types and the SessionState the handler leaves the session in.
LegacyMessages == {"audio", "interrupt"}

LegacyStateAfter(msg_type, state) ==
    CASE msg_type = "audio"     -> "listening"
      [] msg_type = "interrupt" -> "idle"
      [] OTHER                  -> state

NoLegacyConn == [pc |-> "none", sid |-> "None", obj |-> 0]

LegacyStep ==
    /\ service = "gateway_legacy"
    /\ UNCHANGED <<service, nerveVars, nEvents, last, streamVars, ttsVars,
                   turnVars, gwVars, vcVars, chain, script, ws>>

\* /ws/voice/{sid} is opened: session = VoiceSession(...) and
\* sessions[session_id] = session
LegacyConnect(c, sid) ==
    /\ LegacyStep
    /\ legacy.conn[c].pc /= "open"
    /\ legacy.nextObj <= MaxConnects
    /\ LET obj == legacy.nextObj IN
       legacy' = [ sessions |-> [k \in DOMAIN legacy.sessions \cup {sid} |->
                                    IF k = sid THEN obj ELSE legacy.sessions[k]],
                   objs     |-> [legacy.objs EXCEPT ![obj] = "idle"],
                   conn     |-> [legacy.conn EXCEPT
                                    ![c] = [pc |-> "open", sid |-> sid,
                                            obj |-> obj]],
                   nextObj  |-> obj + 1 ]

\* a message on connection c: the handler writes to its own session object
LegacyMessage(c, msg_type) ==
    /\ LegacyStep
    /\ legacy.conn[c].pc = "open"
    /\ legacy' = [legacy EXCEPT
                     !.objs[legacy.conn[c].obj] = LegacyStateAfter(msg_type, @)]

\* connection c ends: finally, if session_id in sessions: del
LegacyClose(c) ==
    /\ LegacyStep
    /\ legacy.conn[c].pc = "open"
    /\ LET sid == legacy.conn[c].sid IN
       legacy' = [legacy EXCEPT
                     !.sessions = [k \in DOMAIN legacy.sessions \ {sid} |->
                                      legacy.sessions[k]],
                     !.conn[c].pc = "closed"]

LegacyInit ==
    legacy = [ sessions |-> <<>>,
               objs     |-> [o \in 1..(MaxConnects + 1) |-> "none"],
               conn     |-> [c \in LegacyConns |-> NoLegacyConn],
               nextObj  |-> 1 ]

LegacyNext ==
    \/ \E c \in LegacyConns, sid \in LegacySids : LegacyConnect(c, sid)
    \/ \E c \in LegacyConns, m \in LegacyMessages : LegacyMessage(c, m)
    \/ \E c \in LegacyConns : LegacyClose(c)

----------------------------------------------------------------------------
(* Specifications. A behaviour follows one process: Spec the nerve service *)
(* or one connection of the streaming service, SpecTTS the TTS cache of    *)
(* the nerve service, SpecTurn one of the two turn detectors.              *)

vars == <<service, active_calls, reports, statusPending, initiation, nextObj,
          nEvents, last, stream, output_queue, loop, greeting, sender, wire,
          flushes, enq, cache, synth, upstream, stores, frames, asr, engine, now,
          engineB, nowB, sessions, gwTasks, cleanupTasks, gwReports, nextSid,
          gwLast, vendor, chain, script, ws, legacy>>

AllInit ==
    /\ NerveInit /\ StreamInit /\ TTSInit /\ TurnInit /\ GwInit /\ VendorInit
    /\ ChainInit /\ ScriptInit /\ WsInit /\ LegacyInit

Init == service \in {"nerve", "stream"} /\ AllInit

Next == NerveNext \/ StreamNext

Spec == Init /\ [][Next]_vars

InitTTS == service = "tts" /\ AllInit

SpecTTS == InitTTS /\ [][TTSNext]_vars

InitTurn == service \in {"asr", "gateway"} /\ AllInit

SpecTurn == InitTurn /\ [][TurnNext]_vars

InitTurnPair == service = "gateway_pair" /\ AllInit

SpecTurnPair == InitTurnPair /\ [][TurnPairNext]_vars

InitSessions == service = "gateway_sessions" /\ AllInit

SpecSessions == InitSessions /\ [][GwNext]_vars

\* asyncio runs every task whose await has completed: the sleeping cleanup
\* tasks and the handlers waiting for an HTTP answer. Requests and
\* websocket messages are the environment's and need not arrive.
GwFairness ==
    /\ WF_vars(\E id \in SessionIds : DelayedCleanup(id))
    /\ WF_vars(\E id \in SessionIds : OutboundInitiated(id) \/ OutboundFailed(id))
    /\ WF_vars(\E id \in SessionIds, ok \in BOOLEAN : WsTextDone(id, ok))

SpecSessionsTimed == InitSessions /\ [][GwTimedNext]_vars /\ GwFairness

InitVendor == service = "vendor_call" /\ AllInit

SpecVendor == InitVendor /\ [][VendorNext]_vars

InitChain == service = "chain" /\ AllInit

SpecChain == InitChain /\ [][ChainNext]_vars

InitScript == service = "script" /\ AllInit

SpecScript == InitScript /\ [][ScriptNext]_vars

InitWs == service = "gateway_ws" /\ AllInit

SpecWs == InitWs /\ [][WsNext]_vars

InitLegacy == service = "gateway_legacy" /\ AllInit

SpecLegacy == InitLegacy /\ [][LegacyNext]_vars

----------------------------------------------------------------------------
(* Claims about the IVR script (nerve handlers and streaming handle_dtmf) *)

SameSession(c) ==
    /\ c \in DOMAIN active_calls
    /\ c \in DOMAIN active_calls'
    /\ active_calls'[c].obj = active_calls[c].obj

StreamCompleted == stream /= None /\ stream[1].conversation_state = "completed"

\* C1: once a session's conversation state is terminal (completed or goodbye
\* in the nerve handlers, COMPLETED in the streaming service), no event
\* moves that session back to a non-terminal state.
C1_TerminalStaysTerminal ==
    [][ /\ \A c \in CallIds :
             (SameSession(c)
              /\ active_calls[c].current_state \in NerveTerminalStates)
             => active_calls'[c].current_state \in NerveTerminalStates
        /\ StreamCompleted => StreamCompleted' ]_vars

\* C1 witness: a callback carrying digits was handled for a session that
\* was already terminal.
C1_LateDigitsOnTerminalSession ==
    /\ last.op = "passthru"
    /\ last.from \in NerveTerminalStates
    /\ last.dtmf /= <<>>
    /\ last.call \in DOMAIN active_calls

\* C2: over the life of a call, the reporting sink is called at most once
\* for its call id, and once the session is terminal it has been called.
C2_ReportedExactlyOnce ==
    \A c \in CallIds :
        /\ reports[c] <= 1
        /\ (c \in DOMAIN active_calls
            /\ active_calls[c].current_state \in NerveTerminalStates)
           => reports[c] = 1

ScriptFields(cs) ==
    <<cs.current_state, cs.status, cs.prep_time_minutes, cs.rejection_reason>>

StreamScriptFields(st) ==
    <<st.conversation_state, st.call_status, st.prep_time_minutes>>

\* C3: once a session is terminal, no later event changes its current
\* state, status, prep_time_minutes or rejection_reason.
C3_TerminalSessionFrozen ==
    [][ /\ \A c \in CallIds :
             (SameSession(c)
              /\ active_calls[c].current_state \in NerveTerminalStates)
             => ScriptFields(active_calls'[c]) = ScriptFields(active_calls[c])
        /\ StreamCompleted
           => (stream' /= None
               /\ StreamScriptFields(stream'[1]) = StreamScriptFields(stream[1]))
      ]_vars

\* C4: after a speak has flushed the output queue, no media frame goes on
\* the wire before the clear frame of that speak.
C4_ClearBeforeFurtherMedia ==
    \A i \in 1..Len(flushes) :
        \A j \in (flushes[i] + 1)..Len(wire) :
            wire[j].type = "media"
            => \E k \in (flushes[i] + 1)..(j - 1) : wire[k].type = "clear"

DtmfInGreeting(ops, digit) ==
    /\ last.op \in ops
    /\ last.from = "greeting"
    /\ last.dtmf = <<digit>>

\* C7: DTMF "1" in state greeting moves the session to the prep-time state
\* with status accepted, answers with the prep-time menu (with a gather in
\* the webhook handlers) and makes no result report, in the gather handler,
\* the passthru handler and the streaming handle_dtmf.
C7_AcceptAsksPrepTime ==
    /\ DtmfInGreeting({"gather", "passthru"}, "1")
       => /\ last.call \in DOMAIN active_calls
          /\ active_calls[last.call].current_state = "prep_time"
          /\ active_calls[last.call].status = "ACCEPTED"
          /\ last.prompt = "prep_time_menu"
          /\ last.gather
          /\ last.nrep = 0
    /\ DtmfInGreeting({"stream_dtmf"}, "1")
       => /\ stream[1].conversation_state = "prep_time"
          /\ stream[1].call_status = "accepted"
          /\ last.prompt = "prep_time_menu"
          /\ last.nrep = 0
          /\ reports[last.call] = 0

\* C7 witness: the passthru handler has just handled "1" in state greeting.
C7_AcceptHandled == DtmfInGreeting({"passthru"}, "1")

\* C8: DTMF "0" in state greeting completes the session with status
\* rejected, makes exactly one result report and asks for no more digits.
C8_RejectCompletesWithOneReport ==
    /\ DtmfInGreeting({"gather", "passthru"}, "0")
       => /\ active_calls[last.call].current_state = "completed"
          /\ active_calls[last.call].status = "REJECTED"
          /\ last.nrep = 1
          /\ ~last.gather
    /\ DtmfInGreeting({"stream_dtmf"}, "0")
       => /\ stream[1].conversation_state = "completed"
          /\ stream[1].call_status = "rejected"
          /\ last.nrep = 1
          /\ ~last.gather

NoInputInGreeting ==
    /\ last.from = "greeting"
    /\ \/ last.op = "passthru" /\ last.dtmf = <<>>
       \/ last.op = "outcome" /\ last.dtmf = <<"no_input">>

\* C9: no input in state greeting ends the call as no_response with one
\* result report and no further prompt or gather.
C9_NoInputEndsCall ==
    NoInputInGreeting
    => /\ active_calls[last.call].status = "NO_RESPONSE"
       /\ last.nrep = 1
       /\ last.prompt = "None"
       /\ ~last.gather

----------------------------------------------------------------------------
(* Claims about the TTS cache *)

InFlight(k) == {t \in SynthCallers : synth[t].pc = "post" /\ synth[t].key = k}

\* C5: requests for the same key collapse to a single upstream synthesis
\* call: at no time are two POSTs for one key in flight.
C5_SingleFlightPerKey ==
    \A k \in CacheKeys : Cardinality(InFlight(k)) <= 1

\* C6: a synthesize call that starts after bytes b were stored for its key
\* returns exactly b and makes no upstream call.
C6_StoredBytesReturned ==
    \A t \in SynthCallers :
        (synth[t].pc /= "idle" /\ synth[t].nstores > 0)
        => /\ ~synth[t].posted
           /\ \A i \in 1..synth[t].nstores :
                  synth[t].result = Some(stores[synth[t].key][i])

----------------------------------------------------------------------------
(* Claims about turn detection *)

SpeechThenSilence(fs, threshold) ==
    \E a \in 1..Len(fs) :
        /\ \A i \in 1..a : fs[i] >= threshold
        /\ \A i \in (a + 1)..Len(fs) : fs[i] < threshold

SilenceFrames(fs, threshold) ==
    Cardinality({i \in 1..Len(fs) : fs[i] < threshold})

IsTurnEvent(m) == m \in {"speech_start", "speech_end"}

OneStartOneEnd == <<"speech_start", "speech_end">>

\* C10: for a run of speech frames followed by silence frames whose
\* accumulated duration reaches the silence threshold, the detector has
\* emitted exactly one speech_start followed by exactly one speech_end.
C10_OneStartThenOneEnd ==
    /\ (/\ service = "asr"
        /\ SpeechThenSilence(frames, VAD_THRESHOLD)
        /\ SilenceMs(SilenceFrames(frames, VAD_THRESHOLD), AsrChunkSamples)
               >= SILENCE_DURATION_MS)
       => SelectSeq(asr.sent, IsTurnEvent) = OneStartOneEnd
    /\ (/\ service = "gateway"
        /\ SpeechThenSilence(frames, vad_threshold)
        /\ SilenceFrames(frames, vad_threshold) * GatewayFrameMs
               >= vad_min_silence_duration
        /\ ~engine.is_ai_speaking
        /\ \A i \in 1..Len(engine.events) : engine.events[i] /= "interrupted")
       => engine.events = OneStartOneEnd

\* C11: end-of-turn detection depends only on the frame sequence: two runs
\* of the turn-taking engine fed the same frames with different delivery
\* delays have emitted the same events after every frame.
C11_SameFramesSameEvents ==
    service = "gateway_pair" => engine.events = engineB.events

GatewayFrameStep ==
    /\ service = "gateway"
    /\ Len(frames') = Len(frames) + 1

C13_MediaFramesAligned ==
    \A i \in 1..Len(wire) :
        wire[i].type = "media" => wire[i].len % CHUNK_SIZE = 0

\* C14: call-state creation is first-writer-wins: a session that exists for
\* a call id is not replaced by a later create for the same call id.
C14_FirstWriterWins ==
    [][ \A c \in CallIds :
            (c \in DOMAIN active_calls /\ c \in DOMAIN active_calls')
            => active_calls'[c].obj = active_calls[c].obj ]_vars

\* The status callback has just removed call c from the registry.
JustRemoved(c) ==
    /\ last.op = "status_cleanup"
    /\ last.call = c
    /\ last.from /= "None"
    /\ c \notin DOMAIN active_calls

\* C15: a gather or passthru callback for a call id that the status callback
\* has removed from the registry creates no new session for it and asks for
\* no digits.
C15_LateCallbackCreatesNoSession ==
    [][ \A c \in CallIds :
            (/\ JustRemoved(c)
             /\ last'.op \in {"gather", "passthru"}
             /\ last'.call = c)
            => /\ c \notin DOMAIN active_calls'
               /\ ~last'.gather
               /\ last'.prompt /= "greeting" ]_vars

----------------------------------------------------------------------------
(* Claims about the voice-gateway session registry *)

Ended(id) == id \in DOMAIN sessions /\ sessions[id].state = "ended"

\* C16: after end_session(id), get_session(id) returns the session with
\* state ENDED until a delayed cleanup removes it.
C16_EndedUntilCleanup ==
    [][ \A id \in SessionIds :
            Ended(id)
            => IF GetSession(sessions', id) /= None
               THEN GetSession(sessions', id)[1].state = "ended"
               ELSE cleanupTasks'[id] < cleanupTasks[id] ]_vars

\* C17: once a session is ENDED, no operation changes its state or appends
\* to its conversation, and no report is made for it.
C17_EndedSessionNotReused ==
    [][ \A id \in SessionIds :
            Ended(id)
            => /\ gwReports'[id] = gwReports[id]
               /\ id \in DOMAIN sessions'
                  => /\ sessions'[id].state = "ended"
                     /\ sessions'[id].turns = sessions[id].turns ]_vars

CreateAttempt ==
    /\ nEvents' /= nEvents
    /\ gwLast'.op \in {"outbound_call", "ws_connect"}
    /\ gwLast'.result /= "attached"

\* C18: the registry never holds more than max_concurrent_sessions sessions,
\* and a create_session at the ceiling fails and leaves it unchanged.
C18_SessionCeiling ==
    [][ /\ Cardinality(DOMAIN sessions') <= max_concurrent_sessions
        /\ (CreateAttempt
            /\ Cardinality(DOMAIN sessions) >= max_concurrent_sessions)
           => gwLast'.result = "error" /\ sessions' = sessions ]_vars

\* C18 witness: a create_session was refused with the registry full.
C18_CreateRefused ==
    /\ service = "gateway_sessions"
    /\ gwLast.result = "error"
    /\ Cardinality(DOMAIN sessions) = max_concurrent_sessions

\* C19: a session whose last activity is older than the session timeout is
\* eventually ended or removed from the registry (unless it becomes active
\* again), even if no further event arrives for it.
C19_StaleSessionTerminated ==
    \A id \in SessionIds :
        (id \in DOMAIN sessions /\ sessions[id].stale /\ ~Ended(id))
        ~> (id \notin DOMAIN sessions \/ Ended(id) \/ ~sessions[id].stale)

----------------------------------------------------------------------------
(* Claims about the prep-time menu *)

MenuMinutes(dtmf) ==
    CASE dtmf = <<"1">> -> 15
      [] dtmf = <<"2">> -> 30
      [] dtmf = <<"3">> -> 45
      [] OTHER -> 30

\* C20: a single key pressed in the prep-time state completes the call in
\* that step without asking again, with 15/30/45 minutes for keys 1/2/3 and
\* the fallback of 30 minutes for any other key.
C20_PrepTimeFallback ==
    /\ (/\ service = "nerve"
        /\ last.op \in {"gather", "passthru"}
        /\ last.from = "prep_time"
        /\ Len(last.dtmf) = 1
        /\ last.call \in DOMAIN active_calls)
       => /\ active_calls[last.call].prep_time_minutes
               = Some(MenuMinutes(last.dtmf))
          /\ active_calls[last.call].current_state \in NerveTerminalStates
          /\ ~last.gather
    /\ (/\ service = "stream"
        /\ last.op = "stream_dtmf"
        /\ last.from = "prep_time"
        /\ stream /= None)
       => /\ stream[1].prep_time_minutes = Some(MenuMinutes(last.dtmf))
          /\ stream[1].conversation_state = "completed"

----------------------------------------------------------------------------
(* Claims about the TTS cache, continued *)

PostFailed(t) == synth[t].pc = "post" /\ synth'[t].pc = "raised"

\* C21: the cache is append-only: a key once in TTSCache.cache stays in it
\* through every synthesize (hit, stored or failed), and a failed upstream
\* synthesis leaves the cache as it was and raises to the caller.
C21_CacheAppendOnly ==
    [][ /\ DOMAIN cache \subseteq DOMAIN cache'
        /\ \A t \in SynthCallers :
               PostFailed(t) => cache' = cache /\ synth'[t].result = None ]_vars

\* C21 witness: a synthesis failed while the cache held an entry.
C21_FailedWithEntries ==
    /\ service = "tts"
    /\ cache /= <<>>
    /\ \E t \in SynthCallers : synth[t].pc = "raised"

----------------------------------------------------------------------------
(* Claims about vendor call initiation *)

UrlSent(name) == name \in DOMAIN vendor.sent[1]

\* C22: when the connect request goes to Exotel, synthesis of the greeting
\* and of the post-acceptance prompt has been attempted and has finished,
\* the URL of each prompt whose synthesis succeeded is in the CustomField
\* sent, and the request is sent whether or not pre-generation failed.
C22_PregenerationBeforeCall ==
    /\ vendor.sent /= None
       => /\ vendor.greeting_tts /= None /\ vendor.accepted_tts /= None
          /\ vendor.greeting_tts = Some(TRUE) => UrlSent("greeting_audio_url")
          /\ vendor.accepted_tts = Some(TRUE) => UrlSent("accepted_audio_url")
    /\ (vendor.greeting_tts /= None /\ vendor.accepted_tts /= None)
       => vendor.sent /= None

----------------------------------------------------------------------------
(* Claims about the fallback chains *)

\* C23: in every fallback chain the first provider that returns ends the
\* chain, its value is what the caller gets, and no provider is called
\* after it; when every provider called has failed the caller gets an
\* error and not a value.
C23_FirstSuccessEndsChain ==
    chain.in.fn /= "none"
    => /\ \A i \in 1..Len(chain.calls) :
              chain.calls[i].ok
              => /\ i = Len(chain.calls)
                 /\ chain.result = <<"value", chain.calls[i].provider>>
       /\ (\A i \in 1..Len(chain.calls) : ~chain.calls[i].ok)
          => chain.result = <<"exception">>

----------------------------------------------------------------------------
(* Claims about the rejection flow of the passthru callback *)

PassthruOn(state) ==
    /\ service = "nerve"
    /\ last.op = "passthru"
    /\ last.from = state
    /\ last.call \in DOMAIN active_calls

\* C24: in the passthru flow, key 0 in the greeting leads to the
\* rejection-reason prompt with a gather and to state rejection_reason; the
\* digits that follow record the matching reason, complete the call and
\* make one result report.
C24_RejectAsksReason ==
    /\ (PassthruOn("greeting") /\ last.dtmf = <<"0">>)
       => /\ active_calls[last.call].current_state = "rejection_reason"
          /\ active_calls[last.call].status = "REJECTED"
          /\ last.gather
          /\ last.nrep = 0
    /\ (PassthruOn("rejection_reason") /\ last.dtmf /= <<>>)
       => /\ active_calls[last.call].rejection_reason
               = Some(RejectionReasonOf(last.dtmf))
          /\ active_calls[last.call].current_state \in NerveTerminalStates
          /\ last.nrep = 1

----------------------------------------------------------------------------
(* Claims about the output queue and the sender of a stream *)

\* q is a sequence of speaks, each a clear, one or more audio chunks and a
\* mark; expect is what the next item may be.
RECURSIVE SpeakShaped(_, _)
SpeakShaped(q, expect) ==
    IF q = <<>> THEN expect = "clear"
    ELSE CASE expect = "clear" ->
                  Head(q).type = "clear" /\ SpeakShaped(Tail(q), "first")
           [] expect = "first" ->
                  Head(q).type = "media" /\ SpeakShaped(Tail(q), "more")
           [] expect = "more" ->
                  \/ Head(q).type = "media" /\ SpeakShaped(Tail(q), "more")
                  \/ Head(q).type = "mark" /\ SpeakShaped(Tail(q), "clear")

\* w (frames on the wire) follows the order of q (items enqueued).
RECURSIVE InOrderOf(_, _)
InOrderOf(w, q) ==
    IF w = <<>> THEN TRUE
    ELSE IF q = <<>> THEN FALSE
    ELSE IF /\ Head(w).type = Head(q).type /\ Head(w).name = Head(q).name
            /\ Head(w).len = Head(q).len
         THEN InOrderOf(Tail(w), Tail(q))
         ELSE InOrderOf(w, Tail(q))

MarkPositions(q) == {i \in 1..Len(q) : q[i].type = "mark"}

InSender == IF sender.item = None THEN <<>> ELSE <<sender.item[1]>>

\* C25: every speak enqueues a clear, then at least one audio chunk, then
\* one mark whose name no other mark of the session has, and the sender
\* puts items on the wire in the order they were enqueued.
C25_SpeakOrder ==
    /\ SpeakShaped(enq, "clear")
    /\ \A i, j \in MarkPositions(enq) : enq[i].name = enq[j].name => i = j
    /\ InOrderOf(wire \o InSender, enq)

\* C25 witness: a second speak has been enqueued and its mark is on the wire.
C25_SecondSpeakSent ==
    /\ service = "stream"
    /\ Len(flushes) >= 2
    /\ wire /= <<>>
    /\ wire[Len(wire)].type = "mark"
    /\ wire[Len(wire)].name = enq[Len(enq)].name

\* C26: a later speak supersedes an earlier one: when the greeting, which is
\* initiated first, finishes its synthesis after the reply to a DTMF digit
\* has been enqueued, the greeting's audio is discarded: nothing is
\* enqueued and the queue keeps the reply's audio and mark.
C26_LaterSpeakSupersedes ==
    [][ (greeting = "synth" /\ greeting' = "done" /\ Len(flushes) >= 1)
        => (enq' = enq /\ output_queue' = output_queue) ]_vars

\* The sender waits on an empty queue with nothing in its hands.
SenderIdle == sender.pc = "get" /\ output_queue = <<>>

OnWire(type, name) ==
    \E j \in 1..Len(wire) : wire[j].type = type /\ wire[j].name = name

\* C27 as stated: every speak puts at least one media frame and its mark on
\* the wire: once the sender has nothing left to send, the mark of every
\* speak that was enqueued is on the wire.
C27_EverySpeakReachesWire ==
    SenderIdle => \A i \in MarkPositions(enq) : OnWire("mark", enq[i].name)

\* C27, amended: a failed synthesis enqueues a non-empty silence buffer
\* between the clear and the mark, and the speak that no later speak has
\* flushed puts at least one non-empty media frame and then its mark on the
\* wire once the sender has sent what was queued.
C27_SilenceInPlaceOfAudio ==
    /\ \A i \in 1..Len(enq) :
           /\ enq[i].type = "media" => enq[i].len > 0
           /\ enq[i].name = "silence"
              => /\ enq[i].len = SilenceBytes
                 /\ enq[i - 1].type = "clear"
                 /\ enq[i + 1].type = "mark"
    /\ (SenderIdle /\ enq /= <<>>)
       => /\ Len(wire) >= 2
          /\ wire[Len(wire)].type = "mark"
          /\ wire[Len(wire)].name = enq[Len(enq)].name
          /\ wire[Len(wire) - 1].type = "media"
          /\ wire[Len(wire) - 1].len > 0

\* C27 witness: the silence of a failed synthesis and its mark were sent.
C27_SilenceSent ==
    /\ service = "stream"
    /\ SenderIdle
    /\ Len(wire) >= 2
    /\ wire[Len(wire)].type = "mark"
    /\ wire[Len(wire) - 1].name = "silence"

Numbered(w) == {i \in 1..Len(w) : w[i].type \in {"media", "mark"}}

\* C28: the sequence numbers of the media and mark messages of a stream are
\* strictly increasing in send order, whatever speaks draw from the same
\* counter in between.
C28_SequenceIncreasing ==
    LET w == wire \o InSender IN
    \A i, j \in Numbered(w) : i < j => w[i].sequence_number < w[j].sequence_number

\* C28 witness: two messages sent one after the other whose numbers are not
\* consecutive, a speak having drawn the number between them.
C28_GapOnWire ==
    /\ service = "stream"
    /\ \E i, j \in Numbered(wire) :
           /\ i < j
           /\ \A k \in Numbered(wire) : ~(i < k /\ k < j)
           /\ wire[j].sequence_number > wire[i].sequence_number + 1

\* C29: every media frame produced for the wire is at least MIN_CHUNK_SIZE
\* and at most MAX_CHUNK_SIZE bytes long, for every synthesized length.
C29_ChunkSizeBounds ==
    \A i \in 1..Len(wire) :
        wire[i].type = "media"
        => MIN_CHUNK_SIZE <= wire[i].len /\ wire[i].len <= MAX_CHUNK_SIZE

----------------------------------------------------------------------------
(* Claims about malformed messages on the streaming channel *)

MalformedStep == last'.op = "malformed" /\ last' /= last

\* C30: a malformed inbound message is dropped without ending the call: it
\* leaves the stream's conversation state and call status and the output
\* queue unchanged, and the message loop goes on receiving.
C30_MalformedDropped ==
    [][ MalformedStep
        => /\ stream' = stream
           /\ output_queue' = output_queue
           /\ loop' = loop /\ loop'.pc = "recv"
           /\ sender' = sender ]_vars

\* C30 witness: a malformed message was dropped in the middle of a call,
\* with audio queued and the loop still receiving.
C30_DroppedMidCall ==
    /\ service = "stream"
    /\ last.op = "malformed"
    /\ stream /= None /\ stream[1].conversation_state = "prep_time"
    /\ output_queue /= <<>>
    /\ loop.pc = "recv"

----------------------------------------------------------------------------
(* Claims about late callbacks and re-prompts in the nerve handlers *)

\* C31: a passthru or gather callback for a session that is already
\* terminal, with or without digits, is answered without a gather and
\* without the greeting, and makes no further result report.
C31_TerminalCallbackIsFinal ==
    (/\ service = "nerve"
     /\ last.op \in {"gather", "passthru"}
     /\ last.from \in NerveTerminalStates)
    => /\ ~last.gather
       /\ last.prompt /= "greeting"
       /\ last.nrep = 0

RepromptOf(c) ==
    /\ nEvents' = nEvents + 1
    /\ last'.op = "passthru"
    /\ last'.call = c
    /\ last'.from = "greeting"
    /\ last'.dtmf \notin {<<"1">>, <<"0">>}
    /\ SameSession(c)

\* C32: re-prompts in state greeting are bounded: a callback without
\* digits or with unrecognised digits either ends the session or uses up
\* part of a retry budget kept in the session, so that it cannot be
\* answered with the greeting indefinitely.
C32_RepromptsBounded ==
    [][ \A c \in CallIds :
            RepromptOf(c)
            => \/ active_calls'[c].current_state \in NerveTerminalStates
               \/ active_calls'[c] /= active_calls[c] ]_vars

----------------------------------------------------------------------------
(* Claims about the prep-time menu of the voice gateway's SIP flow *)

\* The vendor of session id was asked for the prep time by the last input
\* and the next input for the same session carries a key of the menu.
PrepTimeKeyAfterAccept(id) ==
    /\ service = "gateway_sessions"
    /\ id \in DOMAIN sessions
    /\ sessions[id].kind = "vendor_order_confirmation"
    /\ gwLast.op = "exotel_input" /\ gwLast.id = id
    /\ gwLast.input.reply = "prep_time_menu"
    /\ nEvents' = nEvents + 1
    /\ gwLast'.op = "exotel_input" /\ gwLast'.id = id
    /\ gwLast'.result = "answered"

\* C33: for a vendor_order_confirmation call, after key 1 was answered
\* with the prep-time menu, a following key 1, 2 or 3 makes exactly one
\* order_accepted report with 15, 30 or 45 minutes and ends the call; it
\* is never reported as order_rejected.
C33_PrepTimeKeyAccepted ==
    [][ \A id \in SessionIds :
            PrepTimeKeyAfterAccept(id)
            => /\ gwLast'.input.action = "order_accepted"
               /\ gwLast'.input.prep = Some(PrepTimes(gwLast'.dtmf))
               /\ gwLast'.input.end
               /\ gwReports'[id] = gwReports[id] + 1 ]_vars

----------------------------------------------------------------------------
(* Claims about generate_response and the conversation history *)

AllFailed == \A i \in 1..Len(chain.calls) : ~chain.calls[i].ok

IsSuffix(t, q) ==
    /\ Len(t) <= Len(q)
    /\ \A i \in 1..Len(t) : t[i] = q[Len(q) - Len(t) + i]

\* C34: generate_response returns a reply for every combination of
\* provider outcomes and never raises; when the primary and the fallback
\* both fail the reply is the fixed apology and the session's history is
\* as it was; when a provider answers, the history ends with one user and
\* one assistant message of this exchange, placed after what is kept of
\* the earlier history.
C34_GenerateDegradesGracefully ==
    chain.in.fn = "generate"
    => LET old  == StoredContext(chain.in.turns)
           new  == chain.context
           n    == Len(new)
           turn == chain.in.turns + 1
       IN /\ chain.result[1] = "value"
          /\ AllFailed
             => chain.result = <<"value", "apology text">> /\ new = old
          /\ ~AllFailed
             => /\ chain.result[2] /= "apology text"
                /\ n >= 2
                /\ new[n - 1] = Message("user", turn)
                /\ new[n] = Message("assistant", turn)
                /\ IsSuffix(SubSeq(new, 1, n - 2), old)
                /\ Cardinality({i \in 1..n : new[i].turn = turn}) = 2

\* C34 witness: the primary and the fallback both failed for a session
\* that has a history.
C34_BothFailedWithHistory ==
    /\ chain.in.fn = "generate"
    /\ Len(chain.calls) = 2 /\ AllFailed
    /\ chain.in.turns > 0

----------------------------------------------------------------------------
(* Claims about the order of turn events *)

Alternates(ev) ==
    \A i \in 1..Len(ev) :
        ev[i] = IF i % 2 = 1 THEN "speech_start" ELSE "speech_end"

\* C35: with the AI not speaking (no frame was answered with
\* 'interrupted'), the events of the turn-taking engine alternate between
\* speech_start and speech_end, beginning with speech_start: speech that
\* resumes after a short silence starts no second segment, and no
\* speech_end comes without an open speech_start.
C35_StartAndEndAlternate ==
    (/\ service = "gateway"
     /\ \A i \in 1..Len(engine.events) : engine.events[i] /= "interrupted")
    => Alternates(engine.events)

----------------------------------------------------------------------------
(* Claims about the three implementations of the DTMF script *)

\* The states of the nerve handlers under the names of the streaming
\* service: completed and goodbye are both its COMPLETED.
StateName(current_state) ==
    IF current_state \in NerveTerminalStates THEN "completed" ELSE current_state

ScriptsAgree(sc) ==
    /\ StateName(sc.gather.current_state) = sc.stream.conversation_state
    /\ StateName(sc.passthru.current_state) = sc.stream.conversation_state
    /\ sc.gather.prep_time_minutes = sc.stream.prep_time_minutes
    /\ sc.passthru.prep_time_minutes = sc.stream.prep_time_minutes

\* C36: the gather handler, the passthru handler and handle_dtmf are
\* equivalent: from the same state every key takes the three of them to
\* the same next state (up to renaming, hence the same terminal flag) with
\* the same prep_time_minutes.
C36_ScriptsEquivalent ==
    [][ ScriptsAgree(script) => ScriptsAgree(script') ]_vars

----------------------------------------------------------------------------
(* Claims about closing the stream on completion *)

ClosedByMark ==
    /\ service = "stream"
    /\ loop.pc = "recv" /\ loop'.pc = "closed"
    /\ last'.op = "mark"

GoodbyeTexts == {"rejection_goodbye", "prep_time_goodbye"}

\* The marks that follow the audio of a goodbye on the queue.
GoodbyeMarks ==
    { enq[i].name : i \in { j \in 2..Len(enq) :
                               /\ enq[j].type = "mark"
                               /\ enq[j - 1].type = "media"
                               /\ enq[j - 1].name \in GoodbyeTexts } }

\* C37: the message loop ends on completion only through the
\* acknowledgment of the final response's mark: when a mark closes the
\* stream after the goodbye was synthesized and enqueued, it is the mark
\* of the goodbye, so the goodbye's audio and mark have been sent.
C37_ClosedAfterFinalMark ==
    [][ (ClosedByMark /\ GoodbyeMarks /= {})
        => /\ stream'[1].last_mark \in GoodbyeMarks
           /\ OnWire("mark", stream'[1].last_mark) ]_vars

----------------------------------------------------------------------------
(* Claims about audio that arrives while the AI is speaking *)

WsAudioStep ==
    /\ service = "gateway_ws"
    /\ Len(frames') = Len(frames) + 1

\* C38: chunks of a connection go on being processed by the turn-taking
\* engine while the session's is-AI-speaking flag is set: a chunk that
\* arrived while the flag was set is processed with the flag set, and, if
\* it is speech, is answered with 'interrupted'.
C38_AudioProcessedWhileAiSpeaks ==
    [][ (WsAudioStep /\ Head(ws.inbox).during)
        => /\ engine.is_ai_speaking
           /\ Head(ws.inbox).prob >= vad_threshold
              => /\ engine'.events /= engine.events
                 /\ engine'.events[Len(engine'.events)] = "interrupted" ]_vars

----------------------------------------------------------------------------
(* Claims about the sessions map of the legacy gateway *)

\* C39: while a connection is open, the sessions map holds an entry for
\* its session id and the entry is the VoiceSession that the connection
\* updates, whatever other connections with the same id do.
C39_OpenConnectionOwnsEntry ==
    \A c \in LegacyConns :
        (service = "gateway_legacy" /\ legacy.conn[c].pc = "open")
        => /\ legacy.conn[c].sid \in DOMAIN legacy.sessions
           /\ legacy.sessions[legacy.conn[c].sid] = legacy.conn[c].obj

----------------------------------------------------------------------------
(* Claims about repeated providers in a fallback chain *)

\* C40: within one request no provider of a fallback chain is called
\* twice: a provider that failed as primary is not called again as a
\* fallback.
C40_ProviderCalledOnce ==
    chain.in.fn /= "none"
    => \A i, j \in 1..Len(chain.calls) :
           chain.calls[i].provider = chain.calls[j].provider => i = j

====
